---- MODULE Spec2Model ----
(***************************************************************************)
(* A model of the yamlparser library: the line-oriented recursive-descent  *)
(* parser (YamlParser::parse / parseMap / parseSeq), its helper functions  *)
(* (parseAnchor, parseAlias, parseMergeKey, parseMultilineLiteral,         *)
(* parseInlineSeq), the scalar inference engine (parseScalar) and the      *)
(* YamlElement value model.                                                *)
(*                                                                         *)
(* A std::string is a tuple of one-character strings; positions are        *)
(* 0-based as in the C++ code (character p of s is s[p + 1]).  A file is a *)
(* tuple of lines; the cursor idx is 0-based (line idx is lines[idx + 1]). *)
(***************************************************************************)
EXTENDS Integers, Sequences, FiniteSets, TLC

VARIABLES
  files,           \* the contents of the files the caller will parse, in order
  lines,           \* the lines read by the most recent parse call
  m_data,          \* YamlParser::m_data, the root mapping
  m_sequenceData,  \* YamlParser::m_sequenceData, the root sequence
  m_sequenceRoot,  \* YamlParser::m_sequenceRoot
  m_anchors,       \* YamlParser::m_anchors, the Anchor Table
  thrown,          \* the exception the most recent call raised, or NoEx
  calls,           \* the number of calls made so far
  log,             \* history: the block parses of the most recent parse call
  args,            \* the arguments of a direct call of a helper function
  ret              \* what that call returned

vars == <<files, lines, m_data, m_sequenceData, m_sequenceRoot, m_anchors,
          thrown, calls, log, args, ret>>

(***************************************************************************)
(* std::string primitives                                                  *)
(***************************************************************************)

\* std::string::npos: the largest size_t, above every position in a line.
npos == 2147483647

INT_MAX == 2147483647

WS == {" ", "\t"}

Min(S) == CHOOSE x \in S : \A y \in S : x <= y

Max(S) == CHOOSE x \in S : \A y \in S : x >= y

\* s.find_first_not_of(" \t")
find_first_not_of(s) ==
  LET P == {p \in 0..(Len(s) - 1) : s[p + 1] \notin WS}
  IN  IF P = {} THEN npos ELSE Min(P)

\* s.find_last_not_of(" \t")
find_last_not_of(s) ==
  LET P == {p \in 0..(Len(s) - 1) : s[p + 1] \notin WS}
  IN  IF P = {} THEN npos ELSE Max(P)

\* s.find(c) for a one-character needle
find(s, c) ==
  LET P == {p \in 0..(Len(s) - 1) : s[p + 1] = c}
  IN  IF P = {} THEN npos ELSE Min(P)

\* s.substr(pos) and s.substr(pos, n), for pos <= s.size(); a larger pos
\* throws std::out_of_range, which every caller that can pass one models
\* with SubstrThrows.
substr(s, pos) == SubSeq(s, pos + 1, Len(s))

substr2(s, pos, n) == SubSeq(s, pos + 1, IF pos + n > Len(s) THEN Len(s) ELSE pos + n)

SubstrThrows(s, pos) == pos > Len(s)

\* static_cast<int>(size_type): npos becomes -1
ToInt(p) == IF p = npos THEN -1 ELSE p

trim(s) ==
  LET start == find_first_not_of(s)
      end   == find_last_not_of(s)
  IN  IF start = npos \/ end = npos THEN <<>>
      ELSE substr2(s, start, end - start + 1)

front(s) == s[1]

back(s) == s[Len(s)]

isspace(c) == c \in {" ", "\t", "\n", "\r"}

(***************************************************************************)
(* YamlElement: the tagged value                                           *)
(***************************************************************************)

ElementType == {"NONE", "STRING", "DOUBLE", "INT", "BOOL", "SEQ", "MAP"}

NoneElement == [type |-> "NONE"]

StringElement(s) == [type |-> "STRING", str |-> s]

DoubleElement(d) == [type |-> "DOUBLE", d |-> d]

IntElement(i) == [type |-> "INT", i |-> i]

BoolElement(b) == [type |-> "BOOL", b |-> b]

SeqElement(q) == [type |-> "SEQ", seq |-> q]

MapElement(m) == [type |-> "MAP", map |-> m]

isString(e) == e.type = "STRING"

isMap(e) == e.type = "MAP"

isSeq(e) == e.type = "SEQ"

\* YamlMap (std::map<std::string, YamlItem>) is a function from keys to values
EmptyMap == [k \in {} |-> NoneElement]

\* map[key] = item
MapSet(map, key, item) == [k \in (DOMAIN map) \cup {key} |-> IF k = key THEN item ELSE map[k]]

\* map.insert(kv): no effect when the key is present
MapInsert(map, key, item) == IF key \in DOMAIN map THEN map ELSE MapSet(map, key, item)

(***************************************************************************)
(* Exceptions: kind, the 1-based line number (0: none carried), the text   *)
(* the message names (a key or an alias name).  Two history fields that    *)
(* the code does not have: at, the cursor when the exception was raised    *)
(* (-1 outside a block parse), and frames, for each parseMap call the      *)
(* exception unwinds, innermost first, the lines that call had turned into *)
(* entries.                                                                *)
(***************************************************************************)

NoEx == [kind |-> "none", line |-> 0, what |-> <<>>, at |-> -1, frames |-> <<>>]

Ex(kind, line, what) == [kind |-> kind, line |-> line, what |-> what, at |-> -1, frames |-> <<>>]

(***************************************************************************)
(* Scalar inference engine                                                 *)
(***************************************************************************)

Digits == {"0", "1", "2", "3", "4", "5", "6", "7", "8", "9"}

DigitVal(c) ==
  CASE c = "0" -> 0 [] c = "1" -> 1 [] c = "2" -> 2 [] c = "3" -> 3 [] c = "4" -> 4
    [] c = "5" -> 5 [] c = "6" -> 6 [] c = "7" -> 7 [] c = "8" -> 8 [] c = "9" -> 9

AllDigits(s) == Len(s) > 0 /\ \A p \in 1..Len(s) : s[p] \in Digits

\* std::regex_match(value, int_re), int_re = ^-?\d+$
MatchIntRe(s) ==
  IF Len(s) > 0 /\ s[1] = "-" THEN AllDigits(Tail(s)) ELSE AllDigits(s)

\* the mantissa alternatives \d+\.\d* | \.\d+ | \d+
MatchMantissa(m) ==
  LET dot == find(m, ".")
  IN  IF dot = npos THEN AllDigits(m)
      ELSE LET a == substr2(m, 0, dot)
               b == substr(m, dot + 1)
           IN  \/ AllDigits(a) /\ (b = <<>> \/ AllDigits(b))
               \/ a = <<>> /\ AllDigits(b)

\* the exponent suffix [eE][+-]?\d+ without its first letter
MatchExponent(x) ==
  IF Len(x) > 0 /\ x[1] \in {"+", "-"} THEN AllDigits(Tail(x)) ELSE AllDigits(x)

\* std::regex_match(value, double_re),
\* double_re = ^-?(?:\d+\.\d*|\.\d+|\d+)(?:[eE][+-]?\d+)?$
MatchDoubleRe(s) ==
  LET u  == IF Len(s) > 0 /\ s[1] = "-" THEN Tail(s) ELSE s
      E  == {p \in 0..(Len(u) - 1) : u[p + 1] \in {"e", "E"}}
  IN  IF E = {} THEN MatchMantissa(u)
      ELSE MatchMantissa(substr2(u, 0, Min(E))) /\ MatchExponent(substr(u, Min(E) + 1))

\* the digit loop of std::stoi: acc * 10 + d (or - d for a negative token)
\* while the result stays within [INT_MIN, INT_MAX]
RECURSIVE stoiDigits(_, _, _)
stoiDigits(ds, acc, neg) ==
  IF ds = <<>> THEN [ok |-> TRUE, i |-> acc]
  ELSE LET d   == DigitVal(Head(ds))
           lim == IF neg /\ d > 0 THEN (INT_MAX - d + 1) \div 10 ELSE (INT_MAX - d) \div 10
                  \* d = 0: (INT_MAX + 1) \div 10 = INT_MAX \div 10
       IN  IF (IF neg THEN 0 - acc ELSE acc) > lim THEN [ok |-> FALSE, i |-> 0]
           ELSE stoiDigits(Tail(ds), IF neg THEN acc * 10 - d ELSE acc * 10 + d, neg)

\* a conversion that clamps to the nearest int instead of failing
stoiSaturating(s) ==
  IF s[1] = "-"
    THEN IF stoiDigits(Tail(s), 0, TRUE).ok THEN stoiDigits(Tail(s), 0, TRUE)
         ELSE [ok |-> TRUE, i |-> -INT_MAX - 1]
    ELSE IF stoiDigits(s, 0, FALSE).ok THEN stoiDigits(s, 0, FALSE)
         ELSE [ok |-> TRUE, i |-> INT_MAX]

\* std::stoi on a token that matches int_re: the value, or std::out_of_range
stoi(s) ==
  IF s[1] = "-" THEN stoiDigits(Tail(s), 0, TRUE) ELSE stoiDigits(s, 0, FALSE)

\* YamlParser::parseNumericValue; a double keeps the decimal text it was read from
parseNumericValue(value) ==
  IF MatchIntRe(value)
    THEN IF stoi(value).ok
           THEN [ex |-> NoEx, val |-> IntElement(stoi(value).i)]
           ELSE [ex |-> Ex("ConversionException", 0, value), val |-> NoneElement]
  ELSE IF MatchDoubleRe(value)
    THEN [ex |-> NoEx, val |-> DoubleElement(value)]
  ELSE [ex |-> NoEx, val |-> StringElement(value)]

\* the lower-case letter of an upper-case letter of TRUE or FALSE
toLower(c) ==
  CASE c = "T" -> "t" [] c = "R" -> "r" [] c = "U" -> "u" [] c = "E" -> "e"
    [] c = "F" -> "f" [] c = "A" -> "a" [] c = "L" -> "l" [] c = "S" -> "s"
    [] OTHER -> c

\* a primitive test that takes true and false in any case
tryParsePrimitiveAnyCase(cleanValue) ==
  IF [i \in DOMAIN cleanValue |-> toLower(cleanValue[i])] = <<"t", "r", "u", "e">>
    THEN [ex |-> NoEx, val |-> BoolElement(TRUE)]
  ELSE IF [i \in DOMAIN cleanValue |-> toLower(cleanValue[i])] = <<"f", "a", "l", "s", "e">>
    THEN [ex |-> NoEx, val |-> BoolElement(FALSE)]
  ELSE parseNumericValue(cleanValue)

\* YamlParser::tryParsePrimitive
tryParsePrimitive(cleanValue) ==
  IF cleanValue = <<"t", "r", "u", "e">> THEN [ex |-> NoEx, val |-> BoolElement(TRUE)]
  ELSE IF cleanValue = <<"f", "a", "l", "s", "e">> THEN [ex |-> NoEx, val |-> BoolElement(FALSE)]
  ELSE parseNumericValue(cleanValue)

\* YamlParser::preprocessScalarValue
preprocessScalarValue(value) ==
  LET s == trim(value)
  IN  IF s = <<>> THEN s
      ELSE IF front(s) \in {"'", "\""} THEN s
      ELSE LET hash == find(s, "#")
           IN  trim(IF hash # npos THEN substr2(s, 0, hash) ELSE s)

\* YamlParser::processQuotedString
processQuotedString(value) ==
  IF Len(value) >= 2 /\ (\/ front(value) = "'" /\ back(value) = "'"
                         \/ front(value) = "\"" /\ back(value) = "\"")
    THEN substr2(value, 1, Len(value) - 2)
    ELSE value

\* YamlParser::parseScalar
parseScalar(value) ==
  LET cleanValue      == preprocessScalarValue(value)
      primitiveResult == tryParsePrimitive(cleanValue)
  IN  IF primitiveResult.ex # NoEx THEN primitiveResult
      ELSE IF ~isString(primitiveResult.val) THEN primitiveResult
      ELSE [ex |-> NoEx, val |-> StringElement(processQuotedString(cleanValue))]

(***************************************************************************)
(* Line classifier                                                         *)
(***************************************************************************)

isMultilineLiteral(value) == value # <<>> /\ value[1] \in {"|", ">"}

isAnchor(value) == value # <<>> /\ value[1] = "&"

isAlias(value) == value # <<>> /\ value[1] = "*"

isInlineSeq(value) ==
  IF Len(value) < 3 THEN FALSE
  ELSE IF front(value) # "[" \/ back(value) # "]" THEN FALSE
  ELSE \E p \in 2..(Len(value) - 1) : ~isspace(value[p])

isMergeKey(key, value) == key = <<"<", "<">> /\ value # <<>> /\ value[1] = "*"


(***************************************************************************)
(* Helper functions (YamlHelperFunctions)                                  *)
(*                                                                         *)
(* A block-level operation returns a record:                               *)
(*   ex       the exception it raised, or NoEx                             *)
(*   val      the value built                                              *)
(*   idx      the cursor on return (size_t &idx)                           *)
(*   anchors  the Anchor Table on return (modified in place, so kept also  *)
(*            when the operation raises)                                   *)
(* and three history fields that the code does not have:                   *)
(*   own      the lines the call itself turned into entries or items       *)
(*   used     the lines that contributed to val, nested values included    *)
(*   log      one entry per completed parseMap / parseSeq call, per        *)
(*            sequence-item mapping, per anchor definition and per         *)
(*            iteration of the loops of parseMap and parseSeq, in order of *)
(*            completion                                                   *)
(***************************************************************************)

Result(ex, val, idx, anchors, own, used, lg) ==
  [ex |-> ex, val |-> val, idx |-> idx, anchors |-> anchors,
   own |-> own, used |-> used, log |-> lg]

Raise(ex, idx, anchors, lg) == Result(ex, NoneElement, idx, anchors, {}, {}, lg)

LogEntry(fn, what, floor, start, stop, own, used, val) ==
  [fn |-> fn, what |-> what, floor |-> floor, start |-> start, stop |-> stop,
   own |-> own, used |-> used, val |-> val]

\* history: an iteration of the while loop of parseMap or parseSeq found the
\* cursor at start and left the loop state next; outcome tells how it ended:
\* "continue" (the loop goes on), "break" (the call returns) or "raise"
iterated(start, next, outcome) ==
  [next EXCEPT !.log = Append(@, LogEntry("iteration", <<outcome>>, 0, start, next.idx,
                                          {}, {}, NoneElement))]

\* a continuation test that also takes lines indented exactly like the introducer
continuesAtIndent(lns, i, curIndent) ==
  IF i >= Len(lns) THEN FALSE
  ELSE find_first_not_of(lns[i + 1]) # npos /\ find_first_not_of(lns[i + 1]) >= curIndent

\* the lambda `continues` of parseMultilineLiteral
continues(lns, i, curIndent) ==
  IF i >= Len(lns) THEN FALSE
  ELSE LET firstNonSpacePos == find_first_not_of(lns[i + 1])
       IN  firstNonSpacePos # npos /\ firstNonSpacePos > curIndent

\* the two while loops of parseMultilineLiteral
RECURSIVE multilineLoop(_, _, _, _, _)
multilineLoop(lns, idx, curIndent, style, multiline) ==
  IF continues(lns, idx, curIndent)
    THEN multilineLoop(lns, idx + 1, curIndent, style,
                       multiline \o trim(lns[idx + 1]) \o (IF style = "|" THEN <<"\n">> ELSE <<" ">>))
    ELSE [idx |-> idx, multiline |-> multiline]

parseMultilineLiteral(lns, idx, curIndent, style, anchors) ==
  LET r == multilineLoop(lns, idx + 1, curIndent, style, <<>>)
      m == IF style # "|" /\ r.multiline # <<>> /\ back(r.multiline) = " "
             THEN SubSeq(r.multiline, 1, Len(r.multiline) - 1)
             ELSE r.multiline
  IN  Result(NoEx, StringElement(m), r.idx, anchors, {}, idx..(r.idx - 1),
             <<LogEntry("literal", <<style>>, curIndent, idx, r.idx, {}, idx..(r.idx - 1),
                        StringElement(m))>>)

\* an alias lookup that answers the empty Text for an unknown name instead of raising
parseAliasOrEmpty(value, anchors) ==
  LET aliasName == substr(value, 1)
  IN  IF aliasName \notin DOMAIN anchors
        THEN [ex |-> NoEx, val |-> StringElement(<<>>)]
        ELSE [ex |-> NoEx, val |-> anchors[aliasName]]

parseAlias(value, anchors) ==
  LET aliasName == substr(value, 1)
  IN  IF aliasName \notin DOMAIN anchors
        THEN [ex |-> Ex("KeyException", 0, <<"*">> \o aliasName), val |-> NoneElement]
        ELSE [ex |-> NoEx, val |-> anchors[aliasName]]

\* a merge loop without the presence test: every merged entry is assigned
mergeOverwriting(map, merged) ==
  [k \in (DOMAIN map) \cup (DOMAIN merged) |-> IF k \in DOMAIN merged THEN merged[k] ELSE map[k]]

\* the loop `for (const auto &kv : merged)` of parseMergeKey
mergeInto(map, merged) ==
  [k \in (DOMAIN map) \cup (DOMAIN merged) |-> IF k \in DOMAIN map THEN map[k] ELSE merged[k]]

parseMergeKey(value, map, anchors) ==
  LET aliasName == substr(value, 1)
  IN  IF aliasName \notin DOMAIN anchors
        THEN [ex |-> Ex("KeyException", 0, <<"*">> \o aliasName), map |-> map]
      ELSE IF ~isMap(anchors[aliasName])
        THEN [ex |-> Ex("TypeException", 0, <<"*">> \o aliasName), map |-> map]
      ELSE [ex |-> NoEx, map |-> mergeInto(map, anchors[aliasName].map)]

\* the character loop of parseInlineSeq: st is (items, current, inSingleQuote,
\* inDoubleQuote, bracketDepth)
RECURSIVE splitItems(_, _, _)
splitItems(seqContent, i, st) ==
  IF i >= Len(seqContent) THEN st
  ELSE LET c == seqContent[i + 1]
       IN  splitItems(seqContent, i + 1,
             IF c = "'" /\ ~st.inDoubleQuote
               THEN [st EXCEPT !.inSingleQuote = ~@, !.current = @ \o <<c>>]
             ELSE IF c = "\"" /\ ~st.inSingleQuote
               THEN [st EXCEPT !.inDoubleQuote = ~@, !.current = @ \o <<c>>]
             ELSE IF ~st.inSingleQuote /\ ~st.inDoubleQuote
               THEN IF c = "[" THEN [st EXCEPT !.bracketDepth = @ + 1, !.current = @ \o <<c>>]
                    ELSE IF c = "]" THEN [st EXCEPT !.bracketDepth = @ - 1, !.current = @ \o <<c>>]
                    ELSE IF c = "," /\ st.bracketDepth = 0
                      THEN [st EXCEPT !.items = Append(@, trim(st.current)), !.current = <<>>]
                    ELSE [st EXCEPT !.current = @ \o <<c>>]
             ELSE [st EXCEPT !.current = @ \o <<c>>])

RECURSIVE parseInlineSeq(_), inlineItems(_, _)
\* the loop `for (const auto &it : items)` of parseInlineSeq
inlineItems(items, seq) ==
  IF items = <<>> THEN [ex |-> NoEx, val |-> SeqElement(seq)]
  ELSE LET it == Head(items)
           r  == IF it # <<>> /\ front(it) = "[" /\ back(it) = "]"
                   THEN parseInlineSeq(it) ELSE parseScalar(it)
       IN  IF r.ex # NoEx THEN r ELSE inlineItems(Tail(items), Append(seq, r.val))

parseInlineSeq(value) ==
  IF Len(value) < 2 \/ front(value) # "[" \/ back(value) # "]"
    THEN [ex |-> Ex("SyntaxException", 0, value), val |-> NoneElement]
  ELSE LET seqContent == substr2(value, 1, Len(value) - 2)
           st == splitItems(seqContent, 0,
                   [items |-> <<>>, current |-> <<>>, inSingleQuote |-> FALSE,
                    inDoubleQuote |-> FALSE, bracketDepth |-> 0])
           items == IF st.current # <<>> THEN Append(st.items, trim(st.current)) ELSE st.items
       IN  inlineItems(items, <<>>)


(***************************************************************************)
(* Structural recursive descent parser (YamlParser)                        *)
(***************************************************************************)

\* YamlParser::validateMapStructure
validateMapStructure(line, lineNumber) ==
  LET pos   == find(line, ":")
      key   == trim(substr2(line, 0, pos))
      value == trim(substr(line, pos + 1))
  IN  IF pos = npos
        THEN [ex |-> Ex("SyntaxException", lineNumber + 1, line), key |-> <<>>, value |-> <<>>]
      ELSE IF key = <<>>
        THEN [ex |-> Ex("SyntaxException", lineNumber + 1, <<>>), key |-> key, value |-> value]
      ELSE [ex |-> NoEx, key |-> key, value |-> value]

\* a duplicate-key test that never finds the key
neverDuplicateKey(key, explicitKeys) == FALSE

\* the duplicate-key test of parseMap: explicitKeys.find(key) != explicitKeys.end()
isDuplicateKey(key, explicitKeys) == key \in explicitKeys

RECURSIVE parseMap(_, _, _, _), parseMapLoop(_, _, _, _),
          parseSeq(_, _, _, _), parseSeqLoop(_, _, _, _),
          parseSeqElement(_, _, _, _), parseAnchor(_, _, _, _),
          parseMapIteration(_, _, _), parseBlock(_, _, _),
          parseMapSequenceLine(_, _), parseMapKeyLine(_, _, _, _)

\* The block that starts at line start, parsed with that line's own
\* indentation as the floor: by parseSeq when the line starts with '-',
\* otherwise by parseMap.  This is the choice parseAnchor makes for the
\* anchored node and parseMap makes for the block under a `key:` line; for
\* a sequence line inside a mapping it is the call parseSeq(lines, idx,
\* curIndent).  The line is known not to be blank.
parseBlock(lns, start, anchors) ==
  LET nextIndent == find_first_not_of(lns[start + 1])
  IN  IF substr(lns[start + 1], nextIndent)[1] = "-"
        THEN parseSeq(lns, start, ToInt(nextIndent), anchors)
        ELSE parseMap(lns, start, ToInt(nextIndent), anchors)

\* find_first_not_of(" \t") of line idx, npos when there is no such line
nextIndentPos(lns, idx) ==
  IF idx < Len(lns) THEN find_first_not_of(lns[idx + 1]) ELSE npos

\* an anchor table that keeps the first node stored under a name
defineAnchorOnce(anchorName, idx0, floor, r) ==
  IF r.ex # NoEx THEN r
  ELSE Result(NoEx, r.val, r.idx, MapInsert(r.anchors, anchorName, r.val), {}, {idx0} \cup r.used,
              Append(r.log, LogEntry("anchor", anchorName, floor, idx0, r.idx,
                                     {}, {idx0} \cup r.used, r.val)))

\* the end of parseAnchor: anchors[anchorName] = anchorNode; return anchorNode,
\* where r is the outcome of parsing the anchored node
defineAnchor(anchorName, idx0, floor, r) ==
  IF r.ex # NoEx THEN r
  ELSE Result(NoEx, r.val, r.idx, MapSet(r.anchors, anchorName, r.val), {}, {idx0} \cup r.used,
              Append(r.log, LogEntry("anchor", anchorName, floor, idx0, r.idx,
                                     {}, {idx0} \cup r.used, r.val)))

parseAnchor(value, lns, idx0, anchors) ==
  defineAnchor(substr(value, 1), idx0, ToInt(nextIndentPos(lns, idx0 + 1)),
               IF nextIndentPos(lns, idx0 + 1) # npos
                 THEN parseBlock(lns, idx0 + 1, anchors)
                 ELSE Result(NoEx, StringElement(<<>>), idx0 + 1, anchors, {}, {}, <<>>))

\* The loop state st of parseMap: idx, map, explicitKeys, anchors
\* (m_anchors), ex (set when an iteration raises) and the history.

\* map[key] = item; idx = nidx; explicitKeys.insert(key)
putEntry(st, key, item, nidx, anchors, used, lg) ==
  [st EXCEPT !.map = MapSet(st.map, key, item), !.idx = nidx,
             !.explicitKeys = @ \cup {key}, !.anchors = anchors,
             !.own = @ \cup {st.idx}, !.used = @ \cup {st.idx} \cup used,
             !.log = @ \o lg]

\* throw ex from the iteration on line st.idx
throwAt(st, ex) == [st EXCEPT !.ex = [ex EXCEPT !.at = st.idx, !.frames = <<st.own>>]]

\* the exception of the nested call r passes through this parseMap call
unwindMap(st, r) ==
  [st EXCEPT !.ex = [r.ex EXCEPT !.frames = Append(@, st.own)],
             !.anchors = r.anchors, !.log = @ \o r.log]

\* map[key] = <the value of the nested call r>
putNested(st, key, r) ==
  IF r.ex # NoEx THEN unwindMap(st, r)
  ELSE putEntry(st, key, r.val, r.idx, r.anchors, r.used, r.log)

\* map[key] = <the value r computed from the line itself>; idx++
putInline(st, key, r) ==
  IF r.ex # NoEx THEN throwAt(st, r.ex)
  ELSE putEntry(st, key, r.val, st.idx + 1, st.anchors, {}, <<>>)

\* parseMergeKey(value, map, m_anchors); idx++
putMerged(st, r) ==
  IF r.ex # NoEx THEN throwAt(st, r.ex)
  ELSE [st EXCEPT !.map = r.map, !.idx = st.idx + 1,
                  !.own = @ \cup {st.idx}, !.used = @ \cup {st.idx}]

\* a sequence-line branch that steps the cursor back after parseSeq returned
putSequenceRewinding(st, pkey, r) ==
  IF r.ex # NoEx THEN unwindMap(st, r)
  ELSE [st EXCEPT !.map = MapSet(st.map, pkey, r.val), !.idx = r.idx - 1,
                  !.explicitKeys = @ \cup {pkey}, !.anchors = r.anchors,
                  !.used = @ \cup r.used, !.log = @ \o r.log]

\* map[key] = parseSeq(...); explicitKeys.insert(key); then idx++
putSequence(st, pkey, r) ==
  IF r.ex # NoEx THEN unwindMap(st, r)
  ELSE [st EXCEPT !.map = MapSet(st.map, pkey, r.val), !.idx = r.idx + 1,
                  !.explicitKeys = @ \cup {pkey}, !.anchors = r.anchors,
                  !.used = @ \cup r.used, !.log = @ \o r.log]

\* parseMap on a line that starts with '-' ("Handle sequence lines within a map")
parseMapSequenceLine(lns, st) ==
  LET idx      == st.idx
      prev     == lns[idx]
      prevFnp  == find_first_not_of(prev)
      prevLine == substr(prev, prevFnp)
      prevPos  == find(prevLine, ":")
      pkey     == trim(substr2(prevLine, 0, prevPos))
  IN  IF idx > 0 THEN
        IF SubstrThrows(prev, prevFnp) THEN throwAt(st, Ex("std::out_of_range", 0, <<>>))
        ELSE IF prevPos # npos /\ pkey \notin DOMAIN st.map
          THEN putSequence(st, pkey, parseBlock(lns, idx, st.anchors))
        ELSE [st EXCEPT !.idx = idx + 1]
      ELSE [st EXCEPT !.idx = idx + 1]

\* parseMap on any other line: kv is what validateMapStructure made of it
parseMapKeyLine(lns, st, curIndent, kv) ==
  LET idx       == st.idx
      lookahead == idx + 1
  IN
  IF kv.ex # NoEx THEN throwAt(st, kv.ex)
  \* Check for duplicate key: only error if explicitly defined in this block
  ELSE IF isDuplicateKey(kv.key, st.explicitKeys)
    THEN throwAt(st, Ex("SyntaxException", idx + 1, kv.key))
  ELSE IF kv.value \in {<<>>, <<"\n">>, <<"\r">>, <<"\r", "\n">>} THEN
    IF lookahead < Len(lns) /\ find_first_not_of(lns[lookahead + 1]) > curIndent
      THEN IF SubstrThrows(lns[lookahead + 1], find_first_not_of(lns[lookahead + 1]))
             THEN throwAt(st, Ex("std::out_of_range", 0, <<>>))
             ELSE putNested(st, kv.key, parseBlock(lns, lookahead, st.anchors))
      ELSE putEntry(st, kv.key, StringElement(<<>>), idx + 1, st.anchors, {}, <<>>)
  ELSE IF isMultilineLiteral(kv.value) THEN
    putNested(st, kv.key,
              parseMultilineLiteral(lns, idx, ToInt(curIndent), kv.value[1], st.anchors))
  ELSE IF isAnchor(kv.value) THEN
    putNested(st, kv.key, parseAnchor(kv.value, lns, idx, st.anchors))
  ELSE IF isMergeKey(kv.key, kv.value) THEN
    putMerged(st, parseMergeKey(kv.value, st.map, st.anchors))
  ELSE IF isAlias(kv.value) THEN
    putInline(st, kv.key, parseAlias(kv.value, st.anchors))
  ELSE IF isInlineSeq(kv.value) THEN
    putInline(st, kv.key, parseInlineSeq(kv.value))
  ELSE IF kv.value # <<>> /\ front(kv.value) = "[" /\ back(kv.value) # "]" THEN
    throwAt(st, Ex("SyntaxException", 0, kv.value))
  ELSE
    putInline(st, kv.key, parseScalar(kv.value))

\* One iteration of the while loop of parseMap on the line at st.idx, which
\* is not blank, not a comment and not below the floor.  The result is the
\* next loop state.
parseMapIteration(lns, st, curIndent) ==
  IF substr(lns[st.idx + 1], curIndent)[1] = "-"
    THEN parseMapSequenceLine(lns, st)
    ELSE parseMapKeyLine(lns, st, curIndent,
                         validateMapStructure(substr(lns[st.idx + 1], curIndent), st.idx))

\* return map, with the record of the call
mapDone(st, indent, start) ==
  Result(NoEx, MapElement(st.map), st.idx, st.anchors, st.own, st.used,
         Append(st.log, LogEntry("parseMap", <<>>, indent, start, st.idx, st.own,
                                 st.used, MapElement(st.map))))

\* how an iteration of parseMap that reached the entry dispatch ended: it
\* raised, or the loop goes on
mapIterated(start, next) ==
  iterated(start, next, IF next.ex # NoEx THEN "raise" ELSE "continue")

\* the while loop of parseMap
parseMapLoop(lns, indent, start, st) ==
  IF st.ex # NoEx THEN Raise(st.ex, st.idx, st.anchors, st.log)
  ELSE IF ~(st.idx < Len(lns)) THEN mapDone(st, indent, start)
  ELSE IF lns[st.idx + 1] = <<>> \/ find_first_not_of(lns[st.idx + 1]) = npos
    THEN parseMapLoop(lns, indent, start,
                      iterated(st.idx, [st EXCEPT !.idx = st.idx + 1], "continue"))
  ELSE IF trim(lns[st.idx + 1])[1] = "#"
    THEN parseMapLoop(lns, indent, start,
                      iterated(st.idx, [st EXCEPT !.idx = st.idx + 1], "continue"))
  ELSE IF ToInt(find_first_not_of(lns[st.idx + 1])) < indent
    THEN mapDone(iterated(st.idx, st, "break"), indent, start)
  ELSE parseMapLoop(lns, indent, start,
                    mapIterated(st.idx,
                                parseMapIteration(lns, st, find_first_not_of(lns[st.idx + 1]))))

parseMap(lns, idx, indent, anchors) ==
  parseMapLoop(lns, indent, idx,
               [idx |-> idx, map |-> EmptyMap, explicitKeys |-> {}, anchors |-> anchors,
                ex |-> NoEx, own |-> {}, used |-> {}, log |-> <<>>])

\* the loop `for (const auto &pair : indentedMap) itemMap[pair.first] = pair.second`
\* of parseSeqElement
overwriteWith(itemMap, indentedMap) ==
  [k \in (DOMAIN itemMap) \cup (DOMAIN indentedMap) |->
     IF k \in DOMAIN indentedMap THEN indentedMap[k] ELSE itemMap[k]]

\* The loop state st of parseSeq: idx, seq, anchors, go (the value
\* parseSeqElement returned: false is break), ex and the history.

\* seq.push_back(item); idx = nidx
pushItem(st, item, nidx, anchors, used, lg) ==
  [st EXCEPT !.seq = Append(@, item), !.idx = nidx, !.anchors = anchors,
             !.own = @ \cup {st.idx}, !.used = @ \cup {st.idx} \cup used, !.log = @ \o lg]

\* throw ex from parseSeqElement on line st.idx
throwItem(st, ex) == [st EXCEPT !.ex = [ex EXCEPT !.at = st.idx]]

\* seq.push_back(<the value r computed from the line itself>); idx++
pushInline(st, r) ==
  IF r.ex # NoEx THEN throwItem(st, r.ex)
  ELSE pushItem(st, r.val, st.idx + 1, st.anchors, {}, <<>>)

\* the itemMap of a mapping item: its inline first field, if the item has
\* one (sc is parseScalar of its value)
firstField(inline, key, sc) ==
  IF inline THEN MapSet(EmptyMap, key, sc.val) ELSE EmptyMap

\* the record of a mapping item in the history
itemEntry(st, floor, inline, r, result) ==
  LogEntry("item", <<>>, floor, st.idx, r.idx,
           (IF inline THEN {st.idx} ELSE {}) \cup r.own, {st.idx} \cup r.used, result)

\* The mapping-block path of parseSeqElement: sc is parseScalar of the
\* inline first field, r the parseMap call on the indented lines.
pushItemMap(st, floor, inline, key, sc, r) ==
  IF inline /\ sc.ex # NoEx THEN throwItem(st, sc.ex)
  ELSE IF r.ex # NoEx THEN [st EXCEPT !.ex = r.ex, !.anchors = r.anchors, !.log = @ \o r.log]
  ELSE pushItem(st, MapElement(overwriteWith(firstField(inline, key, sc), r.val.map)),
                r.idx, r.anchors, r.used,
                Append(r.log,
                       itemEntry(st, floor, inline, r,
                                 MapElement(overwriteWith(firstField(inline, key, sc), r.val.map)))))

\* parseSeqElement on a line `- value` that is followed by a deeper line
parseSeqItemMap(lns, st, value, nextIndent) ==
  pushItemMap(st, ToInt(nextIndent), value # <<>> /\ find(value, ":") # npos,
              trim(substr2(value, 0, find(value, ":"))),
              parseScalar(trim(substr(value, find(value, ":") + 1))),
              parseMap(lns, st.idx + 1, ToInt(nextIndent), st.anchors))

\* YamlParser::parseSeqElement on the line at st.idx
parseSeqElement(lns, st, indent, curIndent) ==
  LET idx       == st.idx
      line      == lns[idx + 1]
      value     == trim(substr(substr(line, curIndent), 1))
      lookahead == idx + 1
  IN
  IF line = <<>> \/ find_first_not_of(line) = npos THEN [st EXCEPT !.idx = idx + 1]
  ELSE IF trim(line)[1] = "#" THEN [st EXCEPT !.idx = idx + 1]
  ELSE IF ToInt(curIndent) < indent THEN [st EXCEPT !.go = FALSE]
  ELSE IF substr(line, curIndent)[1] # "-" THEN [st EXCEPT !.go = FALSE]
  ELSE IF /\ lookahead < Len(lns)
          /\ nextIndentPos(lns, lookahead) # npos
          /\ nextIndentPos(lns, lookahead) > curIndent
    THEN parseSeqItemMap(lns, st, value, nextIndentPos(lns, lookahead))
  ELSE IF value # <<>>
    THEN pushInline(st, IF isInlineSeq(value) THEN parseInlineSeq(value) ELSE parseScalar(value))
  ELSE pushItem(st, StringElement(<<>>), idx + 1, st.anchors, {}, <<>>)

\* return seq, with the record of the call
seqDone(st, indent, start) ==
  Result(NoEx, SeqElement(st.seq), st.idx, st.anchors, st.own, st.used,
         Append(st.log, LogEntry("parseSeq", <<>>, indent, start, st.idx, st.own,
                                 st.used, SeqElement(st.seq))))

\* how an iteration of parseSeq ended: parseSeqElement raised, returned
\* false (break) or returned true
seqIterated(start, next) ==
  iterated(start, next,
           IF next.ex # NoEx THEN "raise" ELSE IF ~next.go THEN "break" ELSE "continue")

\* the while loop of parseSeq
parseSeqLoop(lns, indent, start, st) ==
  IF st.ex # NoEx THEN Raise(st.ex, st.idx, st.anchors, st.log)
  ELSE IF ~st.go THEN seqDone(st, indent, start)
  ELSE IF ~(st.idx < Len(lns)) THEN seqDone(st, indent, start)
  ELSE parseSeqLoop(lns, indent, start,
                    seqIterated(st.idx,
                                parseSeqElement(lns, st, indent,
                                                find_first_not_of(lns[st.idx + 1]))))

parseSeq(lns, idx, indent, anchors) ==
  parseSeqLoop(lns, indent, idx,
               [idx |-> idx, seq |-> <<>>, anchors |-> anchors, go |-> TRUE,
                ex |-> NoEx, own |-> {}, used |-> {}, log |-> <<>>])

\* the first pass of YamlParser::parse: is the first line that is neither
\* blank nor a comment a sequence line?
\* a root test that looks at the first line only, blank or comment or not
rootIsSequenceHeadOnly(lns) ==
  lns # <<>> /\ trim(Head(lns)) # <<>> /\ trim(Head(lns))[1] = "-"

RECURSIVE rootIsSequence(_)
rootIsSequence(lns) ==
  IF lns = <<>> THEN FALSE
  ELSE LET trimmed == trim(Head(lns))
       IN  IF trimmed = <<>> THEN rootIsSequence(Tail(lns))
           ELSE IF trimmed[1] = "#" THEN rootIsSequence(Tail(lns))
           ELSE trimmed[1] = "-"

(***************************************************************************)
(* The parser object and its operations                                    *)
(***************************************************************************)

\* the root block of parse: parseSeq(lines, idx, 0) or parseMap(lines, idx, 0)
parseRoot(lns, anchors) ==
  IF rootIsSequence(lns) THEN parseSeq(lns, 0, 0, anchors) ELSE parseMap(lns, 0, 0, anchors)

\* a parse that clears its members before it parses the root block
assignRootEarly(lns, isSequence, r) ==
  /\ lines' = lns
  /\ m_anchors' = r.anchors
  /\ thrown' = r.ex
  /\ log' = r.log
  /\ m_sequenceRoot' = (isSequence /\ r.ex = NoEx)
  /\ m_sequenceData' = IF isSequence /\ r.ex = NoEx THEN r.val.seq ELSE <<>>
  /\ m_data' = IF ~isSequence /\ r.ex = NoEx THEN r.val.map ELSE EmptyMap

\* What parse assigns, given the outcome r of the root block.  On the
\* sequence path the members are assigned after parseSeq returned; on the
\* mapping path m_sequenceRoot = false comes before the parseMap call, and
\* m_data and m_sequenceData after it.
assignRoot(lns, isSequence, r) ==
  /\ lines' = lns
  /\ m_anchors' = r.anchors
  /\ thrown' = r.ex
  /\ log' = r.log
  /\ IF r.ex # NoEx
       THEN IF isSequence
              THEN UNCHANGED <<m_data, m_sequenceData, m_sequenceRoot>>
              ELSE /\ m_sequenceRoot' = FALSE
                   /\ UNCHANGED <<m_data, m_sequenceData>>
     ELSE IF isSequence
       THEN /\ m_sequenceRoot' = TRUE
            /\ m_sequenceData' = r.val.seq
            /\ m_data' = EmptyMap
       ELSE /\ m_sequenceRoot' = FALSE
            /\ m_data' = r.val.map
            /\ m_sequenceData' = <<>>

\* YamlParser::parse on the next file: files is the sequence of file
\* contents the caller will hand to parse, one per call.
Parse ==
  /\ files # <<>>
  /\ files' = Tail(files)
  /\ calls' = calls + 1
  /\ assignRoot(Head(files), rootIsSequence(Head(files)), parseRoot(Head(files), m_anchors))
  /\ UNCHANGED <<args, ret>>

\* no direct helper call is pending
NoArgs == [value |-> <<>>, map |-> EmptyMap, anchors |-> EmptyMap]

\* a direct call parseMergeKey(value, map, anchors), as the helper tests make it:
\* ret is the caller's map and anchors after the call
MergeKeyCall ==
  /\ calls = 0
  /\ args # NoArgs
  /\ LET r == parseMergeKey(args.value, args.map, args.anchors)
     IN  /\ ret' = [map |-> r.map, anchors |-> args.anchors]
         /\ thrown' = r.ex
  /\ calls' = calls + 1
  /\ UNCHANGED <<files, lines, m_data, m_sequenceData, m_sequenceRoot, m_anchors, log, args>>

\* a direct call parseScalar(value): ret is the element returned
ScalarCall ==
  /\ calls = 0
  /\ args # NoArgs
  /\ LET r == parseScalar(args.value)
     IN  /\ ret' = r.val
         /\ thrown' = r.ex
  /\ calls' = calls + 1
  /\ UNCHANGED <<files, lines, m_data, m_sequenceData, m_sequenceRoot, m_anchors, log, args>>

(***************************************************************************)
(* YamlPrinter: the text printed for a mapping or a sequence                *)
(***************************************************************************)

\* the printable ASCII characters in code order (without the grave accent,
\* which cannot be written in a string here)
Ascii ==
  <<" ", "!", "\"", "#", "$", "%", "&", "'", "(", ")", "*", "+", ",", "-", ".", "/",
    "0", "1", "2", "3", "4", "5", "6", "7", "8", "9", ":", ";", "<", "=", ">", "?",
    "@", "A", "B", "C", "D", "E", "F", "G", "H", "I", "J", "K", "L", "M", "N", "O",
    "P", "Q", "R", "S", "T", "U", "V", "W", "X", "Y", "Z", "[", "\\", "]", "^", "_",
    "a", "b", "c", "d", "e", "f", "g", "h", "i", "j", "k", "l", "m", "n", "o",
    "p", "q", "r", "s", "t", "u", "v", "w", "x", "y", "z", "{", "|", "}", "~">>

\* the position of c in the character order
Code(c) == CHOOSE n \in DOMAIN Ascii : Ascii[n] = c

\* std::less<std::string>, the order std::map iterates its keys in
RECURSIVE StringLess(_, _)
StringLess(a, b) ==
  IF b = <<>> THEN FALSE
  ELSE IF a = <<>> THEN TRUE
  ELSE IF Head(a) # Head(b) THEN Code(Head(a)) < Code(Head(b))
  ELSE StringLess(Tail(a), Tail(b))

\* the keys of a std::map in iteration order
RECURSIVE SortedKeys(_)
SortedKeys(S) ==
  IF S = {} THEN <<>>
  ELSE LET first == CHOOSE k \in S : \A k2 \in S \ {k} : StringLess(k, k2)
       IN  <<first>> \o SortedKeys(S \ {first})

\* the characters of find_first_of in needsQuoting (without the grave accent)
QuotingChars ==
  {":", "#", "{", "}", "[", "]", ",", "&", "*", "!", "?", "|", ">", "'", "\"", "%", "@"}

needsQuoting(s) ==
  IF s = <<>> THEN TRUE
  ELSE IF front(s) = " " \/ back(s) = " " THEN TRUE
  ELSE IF front(s) \in {"-", "?", ":"} THEN TRUE
  ELSE \E i \in DOMAIN s : s[i] \in QuotingChars

\* every character of s, a single quote twice
RECURSIVE doubleQuotes(_)
doubleQuotes(s) ==
  IF s = <<>> THEN <<>>
  ELSE (IF Head(s) = "'" THEN <<"'", "'">> ELSE <<Head(s)>>) \o doubleQuotes(Tail(s))

quoteIfNeeded(s) ==
  IF ~needsQuoting(s) THEN s ELSE <<"'">> \o doubleQuotes(s) \o <<"'">>

makeIndent(n) == [i \in 1..n |-> " "]

\* std::endl
endl == <<"\n">>

null == <<"n", "u", "l", "l">>

\* the decimal digits of n >= 0
RECURSIVE DigitsOf(_)
DigitsOf(n) ==
  IF n < 10 THEN <<Ascii[n + 17]>> ELSE DigitsOf(n \div 10) \o <<Ascii[(n % 10) + 17]>>

\* os << v.asInt()
printInt(n) ==
  IF n >= 0 THEN DigitsOf(n)
  ELSE IF n = -INT_MAX - 1 THEN <<"-">> \o DigitsOf(INT_MAX \div 10) \o <<"8">>
  ELSE <<"-">> \o DigitsOf(-n)

RECURSIVE stripLeadingZeros(_)
stripLeadingZeros(s) ==
  IF s # <<>> /\ Head(s) = "0" THEN stripLeadingZeros(Tail(s)) ELSE s

RECURSIVE stripTrailingZeros(_)
stripTrailingZeros(s) ==
  IF s # <<>> /\ back(s) = "0" THEN stripTrailingZeros(SubSeq(s, 1, Len(s) - 1)) ELSE s

\* os << v.asDouble() for the double std::stod made of the token d: the
\* stream's default format (six significant digits, no trailing zeros, no
\* decimal point when no fraction is left).  Covers tokens without an
\* exponent, of at most six significant digits and magnitude in [1e-4, 1e6)
\* or zero.
printDouble(d) ==
  LET neg  == d # <<>> /\ Head(d) = "-"
      body == IF neg THEN Tail(d) ELSE d
      dot  == find(body, ".")
      ip   == stripLeadingZeros(IF dot = npos THEN body ELSE substr2(body, 0, dot))
      fp   == stripTrailingZeros(IF dot = npos THEN <<>> ELSE substr(body, dot + 1))
  IN  (IF neg THEN <<"-">> ELSE <<>>)
        \o (IF ip = <<>> THEN <<"0">> ELSE ip)
        \o (IF fp = <<>> THEN <<>> ELSE <<".">> \o fp)

RECURSIVE printMapFrom(_, _, _), printSeq(_, _), printItem(_, _)

\* YamlPrinter::print(const YamlItem &, os, indent)
printItem(v, indent) ==
  CASE v.type = "STRING" -> quoteIfNeeded(v.str) \o endl
    [] v.type = "DOUBLE" -> printDouble(v.d) \o endl
    [] v.type = "INT"    -> printInt(v.i) \o endl
    [] v.type = "BOOL"   -> (IF v.b THEN <<"t", "r", "u", "e">> ELSE <<"f", "a", "l", "s", "e">>) \o endl
    [] v.type = "SEQ"    -> endl \o printSeq(v.seq, indent + 2)
    [] v.type = "MAP"    -> endl \o printMapFrom(v.map, SortedKeys(DOMAIN v.map), indent + 2)
    [] OTHER             -> null \o endl

\* YamlPrinter::print(const YamlSeq &, os, indent)
printSeq(seq, indent) ==
  IF seq = <<>> THEN <<>>
  ELSE makeIndent(indent) \o <<"-", " ">> \o printItem(Head(seq), indent + 2)
         \o printSeq(Tail(seq), indent)

\* the loop of YamlPrinter::print(const YamlMap &, os, indent) over the keys left
printMapFrom(map, keys, indent) ==
  IF keys = <<>> THEN <<>>
  ELSE makeIndent(indent) \o quoteIfNeeded(Head(keys)) \o <<":", " ">>
         \o ( IF (isString(map[Head(keys)]) /\ map[Head(keys)].str = <<>>)
                   \/ map[Head(keys)].type = "NONE"
                THEN null \o endl
                ELSE printItem(map[Head(keys)], indent + 2) )
         \o printMapFrom(map, Tail(keys), indent)

\* YamlPrinter::print(const YamlMap &, os, indent)
printMap(map, indent) == printMapFrom(map, SortedKeys(DOMAIN map), indent)

\* the std::getline loop of parse over a text
RECURSIVE getlines(_)
getlines(text) ==
  IF text = <<>> THEN <<>>
  ELSE LET nl == find(text, "\n")
       IN  IF nl = npos THEN <<text>>
           ELSE <<substr2(text, 0, nl)>> \o getlines(substr(text, nl + 1))

\* no document was printed
NoDocument == <<>>

\* The round trip of YamlPrinterTest: the document of the parser is printed
\* to a file and a second, freshly constructed parser will parse that file.
\* ret keeps the first parser's document and the printed text.
RoundTrip ==
  /\ files = <<>> /\ calls = 1 /\ thrown = NoEx /\ args = NoArgs /\ ret = NoDocument
  /\ LET printed == IF m_sequenceRoot THEN printSeq(m_sequenceData, 0) ELSE printMap(m_data, 0)
     IN  /\ ret' = [isSequenceRoot |-> m_sequenceRoot, root |-> m_data,
                    sequenceRoot |-> m_sequenceData, printed |-> printed]
         /\ files' = <<getlines(printed)>>
  /\ m_data' = EmptyMap
  /\ m_sequenceData' = <<>>
  /\ m_sequenceRoot' = FALSE
  /\ m_anchors' = EmptyMap
  /\ UNCHANGED <<lines, thrown, calls, log, args>>

(***************************************************************************)
(* YamlElement: the typed accessors                                        *)
(***************************************************************************)

\* what an accessor yields: the exception it raised, or the payload
Returned(val) == [ex |-> NoEx, val |-> val]

TypeException == [ex |-> Ex("TypeException", 0, <<>>), val |-> <<>>]

asString(e) == IF e.type # "STRING" THEN TypeException ELSE Returned(e.str)

asDouble(e) == IF e.type # "DOUBLE" THEN TypeException ELSE Returned(e.d)

\* an asInt that converts a Text of digits
asIntConverting(e) ==
  IF e.type = "STRING" /\ e.str # <<>> /\ (\A i \in DOMAIN e.str : e.str[i] \in Digits)
    THEN Returned(stoi(e.str).i)
  ELSE IF e.type # "INT" THEN TypeException ELSE Returned(e.i)

asInt(e) == IF e.type # "INT" THEN TypeException ELSE Returned(e.i)

asBool(e) == IF e.type # "BOOL" THEN TypeException ELSE Returned(e.b)

asSeq(e) == IF e.type # "SEQ" THEN TypeException ELSE Returned(e.seq)

asMap(e) == IF e.type # "MAP" THEN TypeException ELSE Returned(e.map)

Accessors == {"asString", "asDouble", "asInt", "asBool", "asSeq", "asMap"}

\* the values held by a mapping or a sequence, at every depth
RECURSIVE ElementsOf(_)
ElementsOf(v) ==
  IF v.type = "MAP" THEN UNION {{v.map[k]} \cup ElementsOf(v.map[k]) : k \in DOMAIN v.map}
  ELSE IF v.type = "SEQ" THEN UNION {{v.seq[i]} \cup ElementsOf(v.seq[i]) : i \in DOMAIN v.seq}
  ELSE {}

\* a caller applies one accessor to one value of the parsed document: ret
\* keeps the value, the accessor and what it returned
Access ==
  /\ files = <<>> /\ calls = 1 /\ thrown = NoEx /\ args = NoArgs /\ ret = NoDocument
  /\ \E accessor \in Accessors :
       \E v \in ElementsOf(IF m_sequenceRoot THEN SeqElement(m_sequenceData) ELSE MapElement(m_data)) :
         LET r == CASE accessor = "asString" -> asString(v)
                    [] accessor = "asDouble" -> asDouble(v)
                    [] accessor = "asInt"    -> asInt(v)
                    [] accessor = "asBool"   -> asBool(v)
                    [] accessor = "asSeq"    -> asSeq(v)
                    [] accessor = "asMap"    -> asMap(v)
         IN  /\ ret' = [of |-> v, accessor |-> accessor, val |-> r.val]
             /\ thrown' = r.ex
  /\ UNCHANGED <<files, lines, m_data, m_sequenceData, m_sequenceRoot, m_anchors, calls, log, args>>

(***************************************************************************)
(* Inputs                                                                  *)
(***************************************************************************)

\* n spaces of indentation
Pad(n) == [i \in 1..n |-> " "]

\* the lines made of one of the bodies at one of the indentations 0..maxIndent
Indented(bodies, maxIndent) == {Pad(n) \o b : n \in 0..maxIndent, b \in bodies}

\* the files of at most n lines over a vocabulary of lines
FilesOver(vocabulary, n) == UNION {[1..m -> vocabulary] : m \in 0..n}

\* a freshly constructed YamlParser that will be handed the files fs
Fresh(fs) ==
  /\ files = fs
  /\ lines = <<>>
  /\ m_data = EmptyMap
  /\ m_sequenceData = <<>>
  /\ m_sequenceRoot = FALSE
  /\ m_anchors = EmptyMap
  /\ thrown = NoEx
  /\ calls = 0
  /\ log = <<>>
  /\ args = NoArgs
  /\ ret = <<>>

Next == Parse


(***************************************************************************)
(* Specifications: a fresh parser and the files it is handed.  Each draws  *)
(* its files from a vocabulary of lines chosen for one feature.            *)
(***************************************************************************)

MaxRootLines == 3

MaxRootIndent == 1

MaxTail == 3

MaxMergeIndent == 2

MaxAnchorLines == 3

MaxAnchorIndent == 1

MaxBlockLines == 3

MaxBlockIndent == 1

MaxKeys == 3

MaxDupLines == 3

MaxDupIndent == 1

MaxAliasLines == 3

MaxAliasIndent == 1

MaxMergeKeyLines == 2

MaxLiteralLines == 3

MaxLiteralIndent == 1

MaxSyntaxLines == 3

MaxSyntaxIndent == 1

MaxFailLines == 3

MaxFailIndent == 1

MaxReuseLines == 3

MaxReuseIndent == 1

MaxBlankLines == 3

MaxBlankIndent == 1

MaxRoundTripLines == 3

MaxRoundTripIndent == 1

MaxNestedTail == 3

MaxNestedIndent == 2

MaxCopyUnits == 4

MaxPad == 1

MaxNumberDigits == 1

MaxLeadingZeros == 1
MaxAccessLines == 2
MaxAccessIndent == 1
MaxUnknownLines == 3
MaxUnknownIndent == 1
MaxEmptyNameTail == 2
MaxEmptyNameIndent == 1
MaxCursorLines == 3
MaxCursorIndent == 1
MaxItemTail == 2
MaxItemIndent == 2
MaxStepLines == 4
MaxStepIndent == 1
MaxEmptyLines == 3
MaxEmptyIndent == 1

Blank == <<>>

\* "# c"
Comment == <<"#", " ", "c">>

\* "- x"
DashX == <<"-", " ", "x">>

\* "k: v"
KeyV == <<"k", ":", " ", "v">>

\* "<<: *n"
MergeN == <<"<", "<", ":", " ", "*", "n">>

\* "- k: v"
DashKeyV == <<"-", " ", "k", ":", " ", "v">>

\* "- <<: *n"
DashMergeN == <<"-", " ", "<", "<", ":", " ", "*", "n">>

\* "s:"
KeyS == <<"s", ":">>

\* "a: &n"
AnchorN == <<"a", ":", " ", "&", "n">>

\* "b: *n"
AliasN == <<"b", ":", " ", "*", "n">>

\* "q: 1"
KeyQ == <<"q", ":", " ", "1">>

\* "p:"
KeyP == <<"p", ":">>

\* "j: v"
KeyJ == <<"j", ":", " ", "v">>

\* "t: |"
LitBar == <<"t", ":", " ", "|">>

\* "u: >"
LitFold == <<"u", ":", " ", ">">>

\* "a: [x": an inline sequence without its closing bracket
OpenSeq == <<"a", ":", " ", "[", "x">>

\* "x": no colon
NoColon == <<"x">>

\* ": v": no key
EmptyKey == <<":", " ", "v">>

\* "f: 2.0"
KeyF == <<"f", ":", " ", "2", ".", "0">>

\* "h: 1.5"
KeyH == <<"h", ":", " ", "1", ".", "5">>

\* "- - x"
DashDashX == <<"-", " ", "-", " ", "x">>

\* "c: &n"
AnchorC == <<"c", ":", " ", "&", "n">>

\* "s: &n"
AnchorS == <<"s", ":", " ", "&", "n">>

\* "y: *n"
AliasY == <<"y", ":", " ", "*", "n">>

\* "e: true"
KeyTrue == <<"e", ":", " ", "t", "r", "u", "e">>

\* `w: "42"`
KeyText42 == <<"w", ":", " ", "\"", "4", "2", "\"">>

\* "foo: *unknown"
FooUnknown == <<"f", "o", "o", ":", " ", "*", "u", "n", "k", "n", "o", "w", "n">>

\* "unknown: &unknown"
UnknownDef == <<"u", "n", "k", "n", "o", "w", "n", ":", " ", "&", "u", "n", "k", "n", "o", "w", "n">>

\* "k: &"
KeyAmp == <<"k", ":", " ", "&">>

\* "k: w"
KeyW == <<"k", ":", " ", "w">>

\* "-"
DashOnly == <<"-">>

\* "i: [,x]"
KeyInline == <<"i", ":", " ", "[", ",", "x", "]">>

\* "d: &n" followed by " - x": the anchor n bound to the sequence ["x"]
SeqAnchorDef == << <<"d", ":", " ", "&", "n">>, <<" ", "-", " ", "x">> >>

\* "d: &n" followed by a blank line: the anchor n bound to the empty Text
TextAnchorDef == << <<"d", ":", " ", "&", "n">>, <<>> >>

\* "d: &n" followed by " k: w": the anchor n bound to the mapping {k: "w"}
AnchorDef == << <<"d", ":", " ", "&", "n">>, <<" ", "k", ":", " ", "w">> >>

\* root kind: blank lines, comments, sequence items and entries; the parser
\* is fresh or has parsed one mapping file or one sequence file before
RootFiles == FilesOver({Blank} \cup Indented({Comment, DashX, KeyV}, MaxRootIndent), MaxRootLines)

Init ==
  \E f \in RootFiles : \E first \in {<<>>, << <<KeyV>> >>, << <<DashX>> >>} : Fresh(first \o <<f>>)

Spec == Init /\ [][Next]_vars

\* merges: the anchor definition, then entries, merges and sequence items
MergeFiles ==
  {AnchorDef \o tail :
     tail \in FilesOver(Indented({KeyV, MergeN, DashKeyV, DashMergeN, KeyS}, MaxMergeIndent), MaxTail)}

InitMerge == \E f \in MergeFiles : Fresh(<<f>>)

SpecMerge == InitMerge /\ [][Next]_vars

\* anchors and aliases
AnchorFiles ==
  FilesOver({Blank} \cup Indented({AnchorN, AliasN, KeyQ, KeyP, DashX}, MaxAnchorIndent),
            MaxAnchorLines)

InitAnchor == \E f \in AnchorFiles : Fresh(<<f>>)

SpecAnchor == InitAnchor /\ [][Next]_vars

\* duplicate keys: the anchor definition, then entries, merges and nested blocks
DupFiles ==
  {AnchorDef \o tail :
     tail \in FilesOver(Indented({KeyV, MergeN, KeyS}, MaxDupIndent), MaxDupLines)}

InitDup == \E f \in DupFiles : Fresh(<<f>>)

SpecDup == InitDup /\ [][Next]_vars

\* aliases before, after and inside the definition of their anchor
AliasFiles ==
  FilesOver({Blank} \cup Indented({AnchorN, AliasN, KeyP}, MaxAliasIndent), MaxAliasLines)

InitAlias == \E f \in AliasFiles : Fresh(<<f>>)

SpecAlias == InitAlias /\ [][Next]_vars

\* block scalars: introducers, lines that are content or the next entry, blanks
LiteralFiles ==
  FilesOver({Blank} \cup Indented({LitBar, LitFold, KeyV}, MaxLiteralIndent), MaxLiteralLines)

InitLiteral == \E f \in LiteralFiles : Fresh(<<f>>)

SpecLiteral == InitLiteral /\ [][Next]_vars

\* malformed lines among entries
SyntaxFiles ==
  FilesOver({Blank} \cup Indented({OpenSeq, NoColon, EmptyKey, KeyV}, MaxSyntaxIndent),
            MaxSyntaxLines)

InitSyntax == \E f \in SyntaxFiles : Fresh(<<f>>)

SpecSyntax == InitSyntax /\ [][Next]_vars

\* files that raise after some lines were parsed, handed to a parser that is
\* fresh or holds a mapping or a sequence from the call before
FailFiles ==
  FilesOver({Blank} \cup Indented({KeyV, NoColon, DashX}, MaxFailIndent), MaxFailLines)

InitFail ==
  \E f \in FailFiles : \E first \in {<<>>, << <<KeyQ>> >>, << <<DashX>> >>} : Fresh(first \o <<f>>)

SpecFail == InitFail /\ [][Next]_vars

\* a parser that has parsed a file defining the anchor n, to the end or up
\* to a line without ':', is handed a file of aliases, merges and definitions
ReuseFiles ==
  FilesOver(Indented({AliasN, MergeN, AnchorN}, MaxReuseIndent), MaxReuseLines)

InitReuse ==
  \E f \in ReuseFiles : \E first \in {AnchorDef, AnchorDef \o <<NoColon>>} : Fresh(<<first, f>>)

SpecReuse == InitReuse /\ [][Next]_vars

\* the file f with the line l put in front of its line p (0-based)
Insert(f, p, l) == SubSeq(f, 1, p) \o <<l>> \o SubSeq(f, p + 1, Len(f))

\* a file of entries, block openers and sequence items, then the same file
\* with one blank or comment line put in at some position
BlankFiles ==
  FilesOver(Indented({KeyV, KeyP, DashX}, MaxBlankIndent), MaxBlankLines)

InitBlank ==
  \E f \in BlankFiles : \E p \in 0..Len(f) :
    \E l \in {Blank} \cup Indented({Comment}, MaxBlankIndent) :
      Fresh(<<f, Insert(f, p, l)>>)

SpecBlank == InitBlank /\ [][Next]_vars

\* documents to print: entries with Text, Integer and Float values, block
\* openers and sequence items
RoundTripFiles ==
  FilesOver(Indented({KeyV, KeyQ, KeyF, KeyH, KeyP, DashX}, MaxRoundTripIndent), MaxRoundTripLines)

InitRoundTrip == \E f \in RoundTripFiles : Fresh(<<f>>)

NextRoundTrip == Parse \/ RoundTrip

SpecRoundTrip == InitRoundTrip /\ [][NextRoundTrip]_vars

\* a sequence whose first item is `- - x`, followed by sequence items at
\* several indentations
NestedFiles ==
  {<<DashDashX>> \o tail :
     tail \in FilesOver(Indented({DashX, DashKeyV, DashDashX}, MaxNestedIndent), MaxNestedTail)}

InitNested == \E f \in NestedFiles : Fresh(<<f>>)

SpecNested == InitNested /\ [][Next]_vars

\* the concatenations of at most n of the units (each a sequence of lines)
RECURSIVE UnitsOver(_, _)
UnitsOver(units, n) ==
  IF n = 0 THEN {<<>>}
  ELSE UnitsOver(units, n - 1)
         \cup {u \o f : u \in units, f \in UnitsOver(units, n - 1)}

\* definitions of the anchor n with three different nodes, dereferences and merges
CopyFiles ==
  UnitsOver({ <<AnchorN, <<" ">> \o KeyV>>, <<AnchorC, <<" ">> \o KeyQ>>,
              <<AnchorS, <<" ">> \o DashX>>, <<AliasN>>, <<AliasY>>, <<MergeN>> },
            MaxCopyUnits)

InitCopy == \E f \in CopyFiles : Fresh(<<f>>)

SpecCopy == InitCopy /\ [][Next]_vars

\* the upper-case letter of a letter of true or false
toUpper(c) ==
  CASE c = "t" -> "T" [] c = "r" -> "R" [] c = "u" -> "U" [] c = "e" -> "E"
    [] c = "f" -> "F" [] c = "a" -> "A" [] c = "l" -> "L" [] c = "s" -> "S"
    [] OTHER -> c

\* the spellings of a word in every mix of cases
Spellings(w) == {[i \in DOMAIN w |-> IF i \in U THEN toUpper(w[i]) ELSE w[i]] : U \in SUBSET DOMAIN w}

\* the tokens with up to n spaces in front and behind
Padded(tokens, n) == {Pad(a) \o t \o Pad(b) : a \in 0..n, b \in 0..n, t \in tokens}

\* the line `k: <token>`
KeyLine(t) == <<"k", ":", " ">> \o t

\* a token handed to parseScalar directly, or a file with the line `k: <token>`
InitTokens(tokens) ==
  \/ /\ args \in [value : tokens, map : {EmptyMap}, anchors : {EmptyMap}]
     /\ files = <<>>
     /\ lines = <<>>
     /\ m_data = EmptyMap
     /\ m_sequenceData = <<>>
     /\ m_sequenceRoot = FALSE
     /\ m_anchors = EmptyMap
     /\ thrown = NoEx
     /\ calls = 0
     /\ log = <<>>
     /\ ret = <<>>
  \/ \E t \in tokens : Fresh(<< <<KeyLine(t)>> >>)

NextScalar == Parse \/ ScalarCall

\* true and false in every mix of cases
BooleanTokens ==
  Padded(Spellings(<<"t", "r", "u", "e">>) \cup Spellings(<<"f", "a", "l", "s", "e">>), MaxPad)

InitBoolean == InitTokens(BooleanTokens)

SpecBoolean == InitBoolean /\ [][NextScalar]_vars

\* the digit strings of at most n digits
DigitStrings(n) == UNION {[1..m -> {"0", "1"}] : m \in 1..n}

\* mantissas: digits, digits and a point, digits on both sides, a point and digits
Mantissas ==
  LET D == DigitStrings(MaxNumberDigits)
  IN  D \cup {d \o <<".">> : d \in D} \cup {<<".">> \o d : d \in D}
        \cup {d \o <<".">> \o e : d \in D, e \in D}

\* exponents: none, or e or E, an optional sign and digits
Exponents ==
  {<<>>} \cup {l \o g \o d : l \in {<<"e">>, <<"E">>}, g \in {<<>>, <<"+">>, <<"-">>},
                             d \in DigitStrings(MaxNumberDigits)}

\* decimal tokens with and without point and exponent, and prefixed tokens
NumberTokens ==
  {g \o m \o e : g \in {<<>>, <<"-">>}, m \in Mantissas, e \in Exponents}
    \cup {<<"0", b>> \o d : b \in {"x", "o", "b"}, d \in DigitStrings(MaxNumberDigits)}

InitNumber == InitTokens(Padded(NumberTokens, MaxPad))

SpecNumber == InitNumber /\ [][NextScalar]_vars

\* digit strings around the ends of the int range
IntBodies ==
  { <<"0">>, <<"7">>, <<"4", "2">>,
    <<"2", "1", "4", "7", "4", "8", "3", "6", "4", "7">>,
    <<"2", "1", "4", "7", "4", "8", "3", "6", "4", "8">>,
    <<"2", "1", "4", "7", "4", "8", "3", "6", "4", "9">>,
    <<"2", "1", "4", "7", "4", "8", "3", "6", "5", "0">>,
    <<"1", "9", "9", "9", "9", "9", "9", "9", "9", "9">>,
    <<"3", "0", "0", "0", "0", "0", "0", "0", "0", "0">>,
    <<"9", "9", "9", "9", "9", "9", "9", "9", "9">>,
    <<"2", "1", "4", "7", "4", "8", "3", "6", "4", "7", "0">>,
    <<"4", "2", "9", "4", "9", "6", "7", "2", "9", "6">>,
    <<"4", "2", "9", "4", "9", "6", "7", "2", "9", "7">> }

\* integer tokens: an optional sign, leading zeros, digits
IntegerTokens ==
  {g \o [i \in 1..z |-> "0"] \o b :
     g \in {<<>>, <<"-">>, <<"+">>}, z \in 0..MaxLeadingZeros, b \in IntBodies}

\* the token handed to parseScalar directly, as the value of the only line
\* of a file, or as the value of the second of three lines
InitInteger ==
  \/ InitTokens(Padded(IntegerTokens, MaxPad))
  \/ \E t \in IntegerTokens : Fresh(<< <<KeyQ, KeyLine(t), KeyJ>> >>)

SpecInteger == InitInteger /\ [][NextScalar]_vars

\* documents holding a value of every variant kind
AccessFiles ==
  FilesOver(Indented({KeyQ, KeyF, KeyTrue, KeyText42, KeyP, DashX}, MaxAccessIndent),
            MaxAccessLines)

InitAccess == \E f \in AccessFiles : Fresh(<<f>>)

NextAccess == Parse \/ Access

SpecAccess == InitAccess /\ [][NextAccess]_vars

\* the alias `foo: *unknown`, alone or among a definition of the anchor
\* unknown and other entries
UnknownFiles ==
  FilesOver(Indented({FooUnknown, UnknownDef, KeyV, Comment}, MaxUnknownIndent), MaxUnknownLines)

InitUnknown == \E f \in UnknownFiles : Fresh(<<f>>)

SpecUnknown == InitUnknown /\ [][Next]_vars

\* the anchor line `k: &`, whose anchor has the empty name, followed by
\* entries, sequence items, lines without colon and blank lines
EmptyNameFiles ==
  {<<KeyAmp>> \o tail :
     tail \in FilesOver(Indented({KeyJ, DashX, NoColon, Blank}, MaxEmptyNameIndent),
                        MaxEmptyNameTail)}

InitEmptyName == \E f \in EmptyNameFiles : Fresh(<<f>>)

SpecEmptyName == InitEmptyName /\ [][Next]_vars

\* every kind of line the loops of parseMap and parseSeq dispatch on
CursorFiles ==
  FilesOver(Indented({KeyV, KeyP, DashX, LitBar, AnchorN}, MaxCursorIndent)
              \cup {Blank, Comment},
            MaxCursorLines)

InitCursor == \E f \in CursorFiles : Fresh(<<f>>)

SpecCursor == InitCursor /\ [][Next]_vars

\* the sequence item `- k: v` followed by entries and items, some of them
\* indented deeper than the dash, some of them repeating the key k
ItemFiles ==
  {<<DashKeyV>> \o tail :
     tail \in FilesOver(Indented({KeyW, KeyJ, DashKeyV}, MaxItemIndent), MaxItemTail)}

InitItem == \E f \in ItemFiles : Fresh(<<f>>)

SpecItem == InitItem /\ [][Next]_vars

\* nested blocks under `p:` and under sequence items, followed by entries
StepFiles == FilesOver(Indented({KeyP, KeyQ, KeyJ, DashX}, MaxStepIndent), MaxStepLines)

InitStep == \E f \in StepFiles : Fresh(<<f>>)

SpecStep == InitStep /\ [][Next]_vars

\* keys without value, items without value and anchors, followed by deeper
\* lines, by lines that are not deeper, by blank lines or by nothing
EmptyFiles ==
  FilesOver(Indented({KeyP, AnchorN, DashOnly, KeyV, KeyInline}, MaxEmptyIndent) \cup {Blank},
            MaxEmptyLines)

InitEmpty == \E f \in EmptyFiles : Fresh(<<f>>)

SpecEmpty == InitEmpty /\ [][Next]_vars

\* blocks under an empty-valued key, sequence lines in a mapping
BlockFiles ==
  FilesOver({Blank} \cup Indented({KeyP, KeyQ, DashX}, MaxBlockIndent), MaxBlockLines)

InitBlock == \E f \in BlockFiles : Fresh(<<f>>)

SpecBlock == InitBlock /\ [][Next]_vars


\* merge lines: direct calls of parseMergeKey on maps over at most MaxKeys
\* keys with Anchor Tables that bind n to a mapping, s to a sequence and t to
\* the empty Text; and files in which n is bound to a mapping, a sequence,
\* the empty Text or nothing before entries and merge lines follow
KeyNames == <<"k", "j", "x", "y", "z">>

Keys == {<<KeyNames[i]>> : i \in 1..MaxKeys}

Maps == UNION {[K -> {StringElement(<<"v">>), StringElement(<<"w">>)}] : K \in SUBSET Keys}

AnchorTables ==
  {[name \in N |-> t[name]] :
     N \in SUBSET {<<"n">>, <<"s">>, <<"t">>},
     t \in {[n \in {<<"n">>, <<"s">>, <<"t">>} |->
               IF n = <<"n">> THEN MapElement(m)
               ELSE IF n = <<"s">> THEN SeqElement(<<StringElement(<<"x">>)>>)
               ELSE StringElement(<<>>)] : m \in Maps}}

MergeKeyFiles ==
  {def \o tail :
     def \in {<<>>, AnchorDef, SeqAnchorDef, TextAnchorDef},
     tail \in FilesOver({KeyV, KeyJ, MergeN}, MaxMergeKeyLines)}

InitMergeKeyCall ==
  /\ args \in [value : {<<"*", "n">>, <<"*", "s">>, <<"*", "t">>, <<"*", "u">>},
               map : Maps, anchors : AnchorTables]
  /\ files = <<>>
  /\ lines = <<>>
  /\ m_data = EmptyMap
  /\ m_sequenceData = <<>>
  /\ m_sequenceRoot = FALSE
  /\ m_anchors = EmptyMap
  /\ thrown = NoEx
  /\ calls = 0
  /\ log = <<>>
  /\ ret = <<>>

InitMergeKey == InitMergeKeyCall \/ \E f \in MergeKeyFiles : Fresh(<<f>>)

NextMergeKey == Parse \/ MergeKeyCall

SpecMergeKey == InitMergeKey /\ [][NextMergeKey]_vars

(***************************************************************************)
(* What a line says, read off its text                                     *)
(***************************************************************************)

Range(f) == {f[x] : x \in DOMAIN f}

\* the line at cursor position i of the file last parsed
LineAt(i) == lines[i + 1]

Indentation(line) == find_first_not_of(line)

IsBlank(line) == trim(line) = <<>>

IsComment(line) == ~IsBlank(line) /\ trim(line)[1] = "#"

IsDashLine(line) == ~IsBlank(line) /\ trim(line)[1] = "-"

\* the `key: value` text of a line: the line itself or, for a sequence
\* item, what follows the dash
EntryText(line) == IF IsDashLine(line) THEN trim(Tail(trim(line))) ELSE trim(line)

HasKey(line) ==
  /\ ~IsBlank(line) /\ ~IsComment(line)
  /\ \E p \in 2..Len(EntryText(line)) :
        EntryText(line)[p] = ":" /\ \E q \in 1..(p - 1) : EntryText(line)[q] \notin WS

ColonAt(line) == Min({p \in 1..Len(EntryText(line)) : EntryText(line)[p] = ":"})

KeyOf(line) == trim(SubSeq(EntryText(line), 1, ColonAt(line) - 1))

ValueOf(line) == trim(SubSeq(EntryText(line), ColonAt(line) + 1, Len(EntryText(line))))

\* `<<: *name`
IsMergeLine(line) ==
  HasKey(line) /\ KeyOf(line) = <<"<", "<">> /\ Len(ValueOf(line)) >= 1 /\ ValueOf(line)[1] = "*"

\* `key: *name`
IsAliasLine(line) ==
  HasKey(line) /\ ~IsDashLine(line) /\ ~IsMergeLine(line)
  /\ Len(ValueOf(line)) >= 1 /\ ValueOf(line)[1] = "*"

\* `key: &name`
IsAnchorLine(line) ==
  HasKey(line) /\ ~IsDashLine(line) /\ Len(ValueOf(line)) >= 1 /\ ValueOf(line)[1] = "&"

\* `key:`
IsEmptyValueLine(line) == HasKey(line) /\ ~IsDashLine(line) /\ ValueOf(line) = <<>>

\* the name after the & or *
NameOf(line) == Tail(ValueOf(line))

\* a line that sets its key explicitly
IsExplicit(line) == HasKey(line) /\ ~IsMergeLine(line)

\* a line that sets its key explicitly to a plain scalar
IsExplicitScalar(line) ==
  /\ IsExplicit(line) /\ ValueOf(line) # <<>>
  /\ ValueOf(line)[1] \notin {"&", "*", "|", ">", "["}

\* the parseMap calls, sequence-item mappings and anchor definitions logged
MapCalls == {e \in Range(log) : e.fn = "parseMap"}

ItemMaps == {e \in Range(log) : e.fn = "item"}

AnchorDefs == {e \in Range(log) : e.fn = "anchor"}

BlockCalls == {e \in Range(log) : e.fn \in {"parseMap", "parseSeq"}}


(***************************************************************************)
(* Properties                                                              *)
(***************************************************************************)

\* the anchored mapping a merge line refers to defines key
MergeDefines(line, key) ==
  /\ NameOf(line) \in DOMAIN m_anchors
  /\ isMap(m_anchors[NameOf(line)])
  /\ key \in DOMAIN m_anchors[NameOf(line)].map

\* C1: in every mapping the parser builds (a block or the mapping of a
\* sequence item with its inline first field), a key set explicitly holds
\* the explicitly written value when the mapping also has a `<<: *name`
\* line whose anchored mapping defines that key, whichever line comes first.
C1_MergePrecedence ==
  \A e \in MapCalls \cup ItemMaps :
    \A i \in e.own : \A j \in e.own :
      ( /\ IsExplicitScalar(LineAt(i))
        /\ IsMergeLine(LineAt(j)) /\ ~IsDashLine(LineAt(j))
        /\ MergeDefines(LineAt(j), KeyOf(LineAt(i))) )
      => /\ KeyOf(LineAt(i)) \in DOMAIN e.val.map
         /\ e.val.map[KeyOf(LineAt(i))] = parseScalar(ValueOf(LineAt(i))).val

\* the first line from the start of call e that is neither blank nor a
\* comment and is indented less than the floor of e, or -1
FirstBelow(e) ==
  LET B == {i \in e.start..(Len(lines) - 1) :
              ~IsBlank(LineAt(i)) /\ ~IsComment(LineAt(i)) /\ Indentation(LineAt(i)) < e.floor}
  IN  IF B = {} THEN -1 ELSE Min(B)

\* C2: no line indented less than the floor of a parseMap or parseSeq call
\* contributes to the container the call returns or to a value nested in
\* it, and the call returns with the cursor at or past the first such line.
C2_FloorRespected ==
  \A e \in BlockCalls :
    /\ \A i \in e.used : Indentation(LineAt(i)) >= e.floor
    /\ FirstBelow(e) # -1 => e.stop >= FirstBelow(e)

\* the lines of the file last parsed that are neither blank nor comments
Significant == {i \in 0..(Len(lines) - 1) : ~IsBlank(LineAt(i)) /\ ~IsComment(LineAt(i))}

\* the entry the outermost block parse (the one parse itself started) logged
RootCall == log[Len(log)]

\* C3: parse decides the root kind from the first line that is neither blank
\* nor a comment: a '-' there gives a sequence root parsed by parseSeq at
\* floor 0 and an empty root(); anything else, an empty or all-blank or
\* all-comment file included, gives a mapping root parsed by parseMap at
\* floor 0 and an empty sequenceRoot(); an empty file parses without error
\* to the empty mapping.
C3_RootKind ==
  calls >= 1 =>
    /\ thrown = NoEx =>
         /\ RootCall.start = 0 /\ RootCall.floor = 0
         /\ IF Significant # {} /\ IsDashLine(LineAt(Min(Significant)))
              THEN /\ RootCall.fn = "parseSeq"
                   /\ m_sequenceRoot
                   /\ m_sequenceData = RootCall.val.seq
                   /\ m_data = EmptyMap
              ELSE /\ RootCall.fn = "parseMap"
                   /\ ~m_sequenceRoot
                   /\ m_data = RootCall.val.map
                   /\ m_sequenceData = <<>>
    /\ Significant = {} => thrown = NoEx /\ m_data = EmptyMap /\ ~m_sequenceRoot

\* a comment in front of a sequence, parsed after a mapping file
C3_Witness ==
  /\ calls = 2 /\ thrown = NoEx /\ m_sequenceRoot /\ m_sequenceData # <<>>
  /\ IsComment(LineAt(0))

\* the first line after position i that is not blank, or -1
NextNonBlank(i) ==
  LET J == {j \in (i + 1)..(Len(lines) - 1) : ~IsBlank(LineAt(j))}
  IN  IF J = {} THEN -1 ELSE Min(J)

\* C4: the value of a `key:` line is the Sequence or Mapping parsed from the
\* next non-blank line when that line is indented deeper than the key line
\* (a Sequence when it starts with '-'), and the empty-string Text
\* otherwise; blank lines in between change nothing, so the line itself
\* raises nothing but a duplicate key.
C4_EmptyValueBlock ==
  /\ \A e \in MapCalls : \A i \in e.own :
       IsEmptyValueLine(LineAt(i)) =>
         LET j == NextNonBlank(i)
             v == e.val.map[KeyOf(LineAt(i))]
         IN  IF j # -1 /\ Indentation(LineAt(j)) > Indentation(LineAt(i))
               THEN v.type = (IF IsDashLine(LineAt(j)) THEN "SEQ" ELSE "MAP")
               ELSE v = StringElement(<<>>)
  /\ (thrown # NoEx /\ thrown.at >= 0 /\ IsEmptyValueLine(LineAt(thrown.at)))
       => thrown.kind = "SyntaxException"

\* no two lines of a set of lines set the same key explicitly
NoRepeatedKey(own) ==
  \A i \in own : \A j \in own :
    (i # j /\ IsExplicit(LineAt(i)) /\ IsExplicit(LineAt(j))) => KeyOf(LineAt(i)) # KeyOf(LineAt(j))

\* C5: a mapping block never takes two lines with the same explicit key:
\* the second one raises SyntaxException with that key and its own 1-based
\* line number, and the cursor never passes it; a key present only through
\* an earlier merge is no duplicate and the explicit line overwrites it.
C5_DuplicateKey ==
  /\ \A e \in MapCalls : NoRepeatedKey(e.own)
  /\ \A n \in DOMAIN thrown.frames : NoRepeatedKey(thrown.frames[n])
  /\ ( /\ thrown # NoEx /\ thrown.at >= 0 /\ thrown.frames # <<>>
       /\ IsExplicit(LineAt(thrown.at)) /\ ~IsDashLine(LineAt(thrown.at))
       /\ \E i \in thrown.frames[1] :
             IsExplicit(LineAt(i)) /\ KeyOf(LineAt(i)) = KeyOf(LineAt(thrown.at)) )
     => /\ thrown.kind = "SyntaxException"
        /\ thrown.line = thrown.at + 1
        /\ thrown.what = KeyOf(LineAt(thrown.at))
  /\ \A e \in MapCalls : \A i \in e.own :
       IsExplicitScalar(LineAt(i)) =>
         e.val.map[KeyOf(LineAt(i))] = parseScalar(ValueOf(LineAt(i))).val

\* a merge brought k in, the first `k: v` overwrote it, the second raised
C5_Witness ==
  /\ thrown.kind = "SyntaxException" /\ thrown.what = <<"k">>
  /\ thrown.frames # <<>>
  /\ \E j \in thrown.frames[1] : IsMergeLine(LineAt(j)) /\ j < thrown.at
  /\ \E i \in thrown.frames[1] : IsExplicit(LineAt(i)) /\ KeyOf(LineAt(i)) = <<"k">>

\* the definitions of name completed when the cursor is at line i
CompletedDefs(name, i) == {d \in AnchorDefs : d.what = name /\ d.stop <= i}

C7_AnchorValue ==
  \A e \in MapCalls : \A i \in e.own :
    IsAnchorLine(LineAt(i)) =>
      \A d \in {x \in AnchorDefs : x.start = i} :
        /\ e.val.map[KeyOf(LineAt(i))] = d.val
        /\ IF /\ i + 1 < Len(lines) /\ ~IsBlank(LineAt(i + 1))
              /\ Indentation(LineAt(i + 1)) > Indentation(LineAt(i))
             THEN d.val.type = (IF IsDashLine(LineAt(i + 1)) THEN "SEQ" ELSE "MAP")
             ELSE d.val = StringElement(<<>>) /\ d.stop = i + 1

\* a value has an entry with the given key at some depth
RECURSIVE HasEntry(_, _)
HasEntry(e, key) ==
  IF e.type = "MAP"
    THEN key \in DOMAIN e.map \/ \E k \in DOMAIN e.map : HasEntry(e.map[k], key)
  ELSE IF e.type = "SEQ"
    THEN \E n \in DOMAIN e.seq : HasEntry(e.seq[n], key)
  ELSE FALSE

\* C8: no mapping of a parsed document has an entry with the key `<<`
\* (every line with that key in these files is a `<<: *name` line).
C8_NoMergeKeyEntry ==
  (calls >= 1 /\ thrown = NoEx) =>
    /\ ~HasEntry(MapElement(m_data), <<"<", "<">>)
    /\ ~HasEntry(SeqElement(m_sequenceData), <<"<", "<">>)

\* the log positions of the anchor definitions completed when the cursor is at line i
CompletedAt(i) == {n \in DOMAIN log : log[n].fn = "anchor" /\ log[n].stop <= i}

\* the Anchor Table of a fresh parser when the cursor is at line i
TableAt(i) ==
  [name \in {log[n].what : n \in CompletedAt(i)} |->
     log[Max({n \in CompletedAt(i) : log[n].what = name})].val]

\* C9: a `<<: *name` line raises KeyException when name is not in the Anchor
\* Table and TypeException when it is bound to something that is not a
\* Mapping, and the map being built and the Anchor Table stay as they were;
\* otherwise the keys of the map become its previous keys plus the anchored
\* mapping's keys, no existing entry changes, and the Anchor Table is
\* unchanged.  Stated of the direct call and of the line inside a parse.
C9_MergeKey ==
  /\ (calls = 1 /\ args # NoArgs) =>
       LET name == Tail(args.value)
       IN  /\ ret.anchors = args.anchors
           /\ IF name \notin DOMAIN args.anchors
                THEN thrown.kind = "KeyException" /\ ret.map = args.map
              ELSE IF args.anchors[name].type # "MAP"
                THEN thrown.kind = "TypeException" /\ ret.map = args.map
              ELSE /\ thrown = NoEx
                   /\ DOMAIN ret.map = (DOMAIN args.map) \cup (DOMAIN args.anchors[name].map)
                   /\ \A k \in DOMAIN args.map : ret.map[k] = args.map[k]
  /\ (calls = 1 /\ args = NoArgs) =>
       /\ \A e \in MapCalls : \A i \in e.own :
            (IsMergeLine(LineAt(i)) /\ ~IsDashLine(LineAt(i))) =>
              /\ NameOf(LineAt(i)) \in DOMAIN TableAt(i)
              /\ isMap(TableAt(i)[NameOf(LineAt(i))])
              /\ DOMAIN TableAt(i)[NameOf(LineAt(i))].map \subseteq DOMAIN e.val.map
       /\ ( /\ thrown # NoEx /\ thrown.at >= 0
            /\ IsMergeLine(LineAt(thrown.at)) /\ ~IsDashLine(LineAt(thrown.at)) )
          => /\ IF NameOf(LineAt(thrown.at)) \notin DOMAIN TableAt(thrown.at)
                  THEN thrown.kind = "KeyException"
                  ELSE /\ thrown.kind = "TypeException"
                       /\ ~isMap(TableAt(thrown.at)[NameOf(LineAt(thrown.at))])
             /\ m_anchors = TableAt(thrown.at)
       /\ thrown = NoEx => m_anchors = TableAt(Len(lines))

\* a direct merge over a map that already has one of the anchored keys with another value
C9_Witness ==
  /\ calls = 1 /\ args # NoArgs /\ thrown = NoEx /\ args.value = <<"*", "n">>
  /\ \E k \in DOMAIN args.map :
        /\ k \in DOMAIN args.anchors[<<"n">>].map
        /\ args.anchors[<<"n">>].map[k] # args.map[k]
  /\ \E k \in DOMAIN ret.map : k \notin DOMAIN args.map

\* C10: a line starting with '-' that parseMap meets raises nothing and adds
\* nothing: the keys of the mapping are those of the lines the call made
\* entries of (files without merges).
C10_DashLineIgnored ==
  /\ \A e \in MapCalls : DOMAIN e.val.map = {KeyOf(LineAt(i)) : i \in e.own}
  /\ (thrown # NoEx /\ thrown.at >= 0) => ~IsDashLine(LineAt(thrown.at))

\* `key: |` or `key: >`
IsLiteralLine(line) ==
  HasKey(line) /\ ~IsDashLine(line) /\ ValueOf(line) \in {<<"|">>, <<">">>}

\* the number of lines right after line i that are not blank and are
\* indented deeper than line i, up to the first line that is not
RunLength(i) ==
  LET Stops == {j \in (i + 1)..(Len(lines) - 1) :
                  IsBlank(LineAt(j)) \/ Indentation(LineAt(j)) <= Indentation(LineAt(i))}
  IN  IF Stops = {} THEN Len(lines) - 1 - i ELSE Min(Stops) - i - 1

\* lines a..b trimmed, each followed by sep
RECURSIVE Joined(_, _, _)
Joined(a, b, sep) ==
  IF a > b THEN <<>> ELSE trim(LineAt(a)) \o sep \o Joined(a + 1, b, sep)

\* the Text of the block scalar introduced on line i
LiteralText(i) ==
  IF ValueOf(LineAt(i)) = <<"|">>
    THEN Joined(i + 1, i + RunLength(i), <<"\n">>)
  ELSE IF RunLength(i) = 0 THEN <<>>
  ELSE Joined(i + 1, i + RunLength(i) - 1, <<" ">>) \o trim(LineAt(i + RunLength(i)))

LiteralCalls == {e \in Range(log) : e.fn = "literal"}

\* C11: the value of a `key: |` or `key: >` line at indentation c is the
\* Text of the maximal run of following non-blank lines indented deeper
\* than c, trimmed, each followed by a newline for `|`, joined by single
\* spaces for `>`, empty for an empty run; the cursor comes back on the
\* first line after the run, and that line is the next one the block reads.
C11_BlockScalar ==
  /\ \A e \in MapCalls : \A i \in e.own :
       IsLiteralLine(LineAt(i)) =>
         /\ e.val.map[KeyOf(LineAt(i))] = StringElement(LiteralText(i))
         /\ \A j \in (i + 1)..(i + RunLength(i)) : j \notin e.own
         /\ LET n == i + RunLength(i) + 1
            IN  ( /\ n < Len(lines) /\ ~IsBlank(LineAt(n)) /\ ~IsDashLine(LineAt(n))
                  /\ Indentation(LineAt(n)) >= e.floor )
                => n \in e.own
  /\ \A l \in LiteralCalls :
       /\ l.stop = l.start + RunLength(l.start) + 1
       /\ l.val = StringElement(LiteralText(l.start))
       /\ (thrown # NoEx /\ thrown.at > l.start) => thrown.at >= l.stop

\* a block scalar whose introducer is indented deeper than the floor of its
\* block and is followed directly by the next entry, and a block scalar
\* with a run that is not empty
C11_Witness ==
  /\ thrown = NoEx /\ calls = 1
  /\ \E e \in MapCalls : \E i \in e.own :
       /\ IsLiteralLine(LineAt(i)) /\ Indentation(LineAt(i)) > e.floor
       /\ i + 1 \in e.own
  /\ \E e \in MapCalls : \E i \in e.own :
       IsLiteralLine(LineAt(i)) /\ RunLength(i) >= 1

\* C12: a SyntaxException raised by a parse carries the 1-based number of
\* the line the cursor was on when it was raised.
C12_SyntaxLine ==
  (calls = 1 /\ thrown.kind = "SyntaxException") => thrown.line = thrown.at + 1

\* C13: a parse call that raises leaves root() and sequenceRoot() as they
\* were before the call, so neither holds an entry or element made from the
\* failed input.
C13_NothingExposed ==
  [][thrown' # NoEx => (m_data' = m_data /\ m_sequenceData' = m_sequenceData)]_vars

\* a second call that raised below its first line, on a parser that still
\* holds the mapping or the sequence of the first call
C13_Witness ==
  /\ calls = 2 /\ thrown # NoEx /\ thrown.at >= 1
  /\ (m_data # EmptyMap \/ m_sequenceData # <<>>)

\* C14: in every parse call of one parser, a `key: *name` or `<<: *name`
\* line is resolved only when a definition of name was completed on earlier
\* lines of the same input; anchors of earlier calls are not visible.
C14_AnchorsPerParse ==
  \A e \in MapCalls : \A i \in e.own :
    (IsAliasLine(LineAt(i)) \/ IsMergeLine(LineAt(i)))
      => CompletedDefs(NameOf(LineAt(i)), i) # {}

\* next is file with one blank or comment-only line put in
OneLineInserted(file, next) ==
  \E p \in 0..Len(file) :
    /\ Len(next) = Len(file) + 1
    /\ IsBlank(next[p + 1]) \/ IsComment(next[p + 1])
    /\ next = Insert(file, p, next[p + 1])

\* C15: parsing a file (without block scalars, anchors, aliases or merges)
\* and then the same file with one blank or comment-only line put in gives
\* the same outcome: both calls raise an error of the same kind, or both
\* return and root(), sequenceRoot() and isSequenceRoot() are the same.
C15_BlankLinesIgnored ==
  [][(calls = 1 /\ OneLineInserted(lines, lines'))
       => /\ thrown'.kind = thrown.kind
          /\ thrown' = NoEx =>
               /\ m_data' = m_data
               /\ m_sequenceData' = m_sequenceData
               /\ m_sequenceRoot' = m_sequenceRoot]_vars

IsScalar(v) == v.type \in {"STRING", "INT", "DOUBLE", "BOOL"}

\* the same variant kind and, for scalars, the same value; Floats are
\* compared by the number they denote
SameScalar(a, b) ==
  /\ IsScalar(a) /\ a.type = b.type
  /\ IF a.type = "DOUBLE" THEN printDouble(a.d) = printDouble(b.d) ELSE a = b

\* a and b are equal scalars, or sequences or mappings of equal scalars
\* with the same length or key set
SameValue(a, b) ==
  \/ SameScalar(a, b)
  \/ /\ a.type = "SEQ" /\ b.type = "SEQ" /\ Len(a.seq) = Len(b.seq)
     /\ \A i \in DOMAIN a.seq : SameScalar(a.seq[i], b.seq[i])
  \/ /\ a.type = "MAP" /\ b.type = "MAP" /\ DOMAIN a.map = DOMAIN b.map
     /\ \A k \in DOMAIN a.map : SameScalar(a.map[k], b.map[k])

\* v is a scalar, or a sequence or mapping of scalars
OneLevel(v) ==
  \/ IsScalar(v)
  \/ v.type = "SEQ" /\ \A i \in DOMAIN v.seq : IsScalar(v.seq[i])
  \/ v.type = "MAP" /\ \A k \in DOMAIN v.map : IsScalar(v.map[k])

\* C16: when the printed text of a mapping document whose values are
\* scalars or one level of sequence or mapping has been parsed by a fresh
\* parser, that parser holds a mapping with the same keys, the same variant
\* kinds and the same scalar values.
C16_RoundTrip ==
  ( /\ calls = 2 /\ ret # NoDocument /\ ~ret.isSequenceRoot
    /\ \A k \in DOMAIN ret.root : OneLevel(ret.root[k]) )
  => /\ thrown = NoEx /\ ~m_sequenceRoot
     /\ DOMAIN m_data = DOMAIN ret.root
     /\ \A k \in DOMAIN ret.root : SameValue(ret.root[k], m_data[k])

\* a sequence item whose inline content is itself a '-' item without ':'
IsNestedItem(line) ==
  /\ IsDashLine(line)
  /\ EntryText(line) # <<>> /\ EntryText(line)[1] = "-"
  /\ \A p \in DOMAIN EntryText(line) : EntryText(line)[p] # ":"

\* the '-' lines right after line i that are indented deeper than line i
InnerItems(i) ==
  {j \in (i + 1)..(Len(lines) - 1) :
     \A m \in (i + 1)..j :
       IsDashLine(LineAt(m)) /\ Indentation(LineAt(m)) > Indentation(LineAt(i))}

\* C17: in a file of sequence items that starts with `- - x` followed by a
\* deeper '-' line, no error is raised, every `- - x` item of the root
\* sequence that is followed by deeper '-' lines is the empty Mapping, and
\* none of those deeper lines makes an element of the root sequence.
C17_NestedSequence ==
  ( /\ calls = 1 /\ Len(lines) >= 2
    /\ \A i \in 0..(Len(lines) - 1) : IsDashLine(LineAt(i))
    /\ IsNestedItem(LineAt(0)) /\ InnerItems(0) # {} )
  => /\ thrown = NoEx /\ m_sequenceRoot
     /\ RootCall.fn = "parseSeq" /\ 0 \in RootCall.own
     /\ \A i \in RootCall.own :
          (IsNestedItem(LineAt(i)) /\ InnerItems(i) # {})
            => /\ m_sequenceData[Cardinality({j \in RootCall.own : j <= i})]
                    = MapElement(EmptyMap)
               /\ InnerItems(i) \cap RootCall.own = {}

\* the definition of name completed last when the cursor is at line i
IsLatestDef(d, name, i) ==
  d \in CompletedDefs(name, i) /\ \A d2 \in CompletedDefs(name, i) : d2.stop <= d.stop

\* C18: in the finished document a root key set by `key: *name` holds the
\* node name had when that line was read, a root key set by `key: &name`
\* holds the node defined there, and a `<<: *name` line brought in the keys
\* of the mapping name had when it was read, whatever name was bound to
\* before or is bound to later.
C18_AliasCopies ==
  (calls = 1 /\ thrown = NoEx /\ ~m_sequenceRoot) =>
    \A i \in RootCall.own :
      /\ IsAliasLine(LineAt(i)) =>
           \E d \in AnchorDefs :
             IsLatestDef(d, NameOf(LineAt(i)), i) /\ m_data[KeyOf(LineAt(i))] = d.val
      /\ IsAnchorLine(LineAt(i)) =>
           \A d \in AnchorDefs : d.start = i => m_data[KeyOf(LineAt(i))] = d.val
      /\ IsMergeLine(LineAt(i)) =>
           \E d \in AnchorDefs :
             /\ IsLatestDef(d, NameOf(LineAt(i)), i) /\ isMap(d.val)
             /\ \A k \in DOMAIN d.val.map : k \in DOMAIN m_data

\* a name dereferenced, defined again with another node and dereferenced again
C18_Witness ==
  /\ calls = 1 /\ thrown = NoEx
  /\ \E i, j \in RootCall.own :
       /\ i < j /\ IsAliasLine(LineAt(i)) /\ IsAliasLine(LineAt(j))
       /\ \E m \in (i + 1)..(j - 1) : IsAnchorLine(LineAt(m))
       /\ m_data[KeyOf(LineAt(i))] # m_data[KeyOf(LineAt(j))]

\* the token of the most recent call: the argument of a direct parseScalar
\* call, or the value text of the one-line file `k: <token>`
Token == IF args # NoArgs THEN trim(args.value) ELSE ValueOf(LineAt(0))

\* the element the most recent call made of the token
Element == IF args # NoArgs THEN ret ELSE m_data[<<"k">>]

IsSpellingOf(t, w) == [i \in DOMAIN t |-> toLower(t[i])] = w

\* C19: of the spellings of true and false in any mix of cases, parseScalar
\* makes a Boolean of exactly `true` and `false` and the Text equal to the
\* token of every other one.
C19_BooleanExact ==
  ( /\ calls = 1
    /\ IsSpellingOf(Token, <<"t", "r", "u", "e">>) \/ IsSpellingOf(Token, <<"f", "a", "l", "s", "e">>) )
  => /\ thrown = NoEx
     /\ Element = IF Token = <<"t", "r", "u", "e">> THEN BoolElement(TRUE)
                  ELSE IF Token = <<"f", "a", "l", "s", "e">> THEN BoolElement(FALSE)
                  ELSE StringElement(Token)

\* `True` handed to parseScalar with spaces around it
C19_Witness ==
  /\ calls = 1 /\ args # NoArgs /\ args.value # trim(args.value)
  /\ Token = <<"T", "r", "u", "e">> /\ ret = StringElement(Token)

\* an optional '-' and at least one digit, nothing else
IsSignedDigits(t, signs) ==
  LET u == IF t # <<>> /\ t[1] \in signs THEN Tail(t) ELSE t
  IN  u # <<>> /\ \A i \in DOMAIN u : u[i] \in Digits

\* digits, then e or E, an optional sign, digits; no decimal point
IsExponentForm(t) ==
  \E p \in 2..(Len(t) - 1) :
    /\ t[p] \in {"e", "E"}
    /\ IsSignedDigits(SubSeq(t, 1, p - 1), {"-"})
    /\ IsSignedDigits(SubSeq(t, p + 1, Len(t)), {"+", "-"})

\* a 0x, 0o or 0b prefix
IsPrefixed(t) == Len(t) >= 2 /\ t[1] = "0" /\ t[2] \in {"x", "o", "b"}

\* C20: parseScalar makes the Text equal to the token of an exponent form
\* without decimal point and of a token with a 0x, 0o or 0b prefix, and it
\* makes a Float only of a token that has a decimal point.
C20_ExponentText ==
  calls = 1 =>
    /\ (IsExponentForm(Token) \/ IsPrefixed(Token))
         => thrown = NoEx /\ Element = StringElement(Token)
    /\ (thrown = NoEx /\ Element.type = "DOUBLE") => \E i \in DOMAIN Token : Token[i] = "."

\* the position of the line that holds the token in a file: `k: <token>`
TokenLine == CHOOSE i \in 0..(Len(lines) - 1) : HasKey(LineAt(i)) /\ KeyOf(LineAt(i)) = <<"k">>

\* the token of the most recent call, in a file of one or several lines
IntToken == IF args # NoArgs THEN trim(args.value) ELSE ValueOf(LineAt(TokenLine))

\* d1 < d2 for digit strings of the same length
RECURSIVE DigitsLess(_, _)
DigitsLess(d1, d2) ==
  IF d1 = <<>> THEN FALSE
  ELSE IF Head(d1) # Head(d2) THEN DigitVal(Head(d1)) < DigitVal(Head(d2))
  ELSE DigitsLess(Tail(d1), Tail(d2))

\* the digit string without its leading zeros
RECURSIVE Significand(_)
Significand(d) == IF d # <<>> /\ Head(d) = "0" THEN Significand(Tail(d)) ELSE d

IntMaxDigits == <<"2", "1", "4", "7", "4", "8", "3", "6", "4", "7">>

IntMinDigits == <<"2", "1", "4", "7", "4", "8", "3", "6", "4", "8">>

\* the number written by the digits d (with '-' in front when neg) fits a
\* 32-bit signed int
FitsInt(d, neg) ==
  LET g   == Significand(d)
      top == IF neg THEN IntMinDigits ELSE IntMaxDigits
  IN  Len(g) < 10 \/ (Len(g) = 10 /\ (g = top \/ DigitsLess(g, top)))

\* the number written by the digits d, negated when neg, for one that fits
RECURSIVE Written(_, _, _)
Written(d, neg, acc) ==
  IF d = <<>> THEN acc
  ELSE Written(Tail(d), neg, IF neg THEN 10 * acc - DigitVal(Head(d)) ELSE 10 * acc + DigitVal(Head(d)))

IsDigitString(d) == d # <<>> /\ \A i \in DOMAIN d : d[i] \in Digits

\* C21: of a token -?digits parseScalar makes the Integer the token writes
\* when that fits a 32-bit signed int, and otherwise it raises
\* ConversionException, which parse passes on without storing anything; a
\* token with a leading '+' becomes the Text equal to the token.
C21_IntegerRange ==
  calls = 1 =>
    LET t   == IntToken
        neg == t # <<>> /\ Head(t) = "-"
        d   == IF neg THEN Tail(t) ELSE t
    IN  /\ IsDigitString(d) =>
             IF FitsInt(d, neg)
               THEN /\ thrown = NoEx
                    /\ (IF args # NoArgs THEN ret ELSE m_data[<<"k">>])
                         = IntElement(Written(Significand(d), neg, 0))
               ELSE /\ thrown.kind = "ConversionException"
                    /\ args = NoArgs => m_data = EmptyMap
        /\ (t # <<>> /\ Head(t) = "+") =>
             /\ thrown = NoEx
             /\ (IF args # NoArgs THEN ret ELSE m_data[<<"k">>]) = StringElement(t)

\* 2147483648 as the value of the second line of a file of three
C21_Witness ==
  /\ calls = 1 /\ args = NoArgs /\ Len(lines) = 3
  /\ IntToken = IntMinDigits
  /\ thrown.kind = "ConversionException" /\ m_data = EmptyMap

\* the variant kind an accessor reads
KindOf(accessor) ==
  CASE accessor = "asString" -> "STRING"
    [] accessor = "asDouble" -> "DOUBLE"
    [] accessor = "asInt"    -> "INT"
    [] accessor = "asBool"   -> "BOOL"
    [] accessor = "asSeq"    -> "SEQ"
    [] accessor = "asMap"    -> "MAP"

\* the payload a value stores
Payload(v) ==
  CASE v.type = "STRING" -> v.str
    [] v.type = "DOUBLE" -> v.d
    [] v.type = "INT"    -> v.i
    [] v.type = "BOOL"   -> v.b
    [] v.type = "SEQ"    -> v.seq
    [] v.type = "MAP"    -> v.map

\* C22: an accessor applied to a value of the document returns the stored
\* payload when the value's variant is the accessor's kind and raises
\* TypeException otherwise, without converting; the access changes neither
\* the value nor the document.
C22_TypedAccess ==
  [][ret' # ret =>
       /\ IF ret'.of.type = KindOf(ret'.accessor)
            THEN thrown' = NoEx /\ ret'.val = Payload(ret'.of)
            ELSE thrown'.kind = "TypeException"
       /\ ret'.of \in ElementsOf(IF m_sequenceRoot' THEN SeqElement(m_sequenceData')
                                                     ELSE MapElement(m_data'))
       /\ m_data' = m_data /\ m_sequenceData' = m_sequenceData
       /\ m_sequenceRoot' = m_sequenceRoot]_vars

\* asInt was applied to the Text "42" and raised
C22_Witness ==
  /\ ret # NoDocument /\ ret.accessor = "asInt"
  /\ ret.of = StringElement(<<"4", "2">>)
  /\ thrown.kind = "TypeException"

\* C23: the parse of the document whose only line is `foo: *unknown` does
\* not raise, and root() then holds the key foo with the Absence variant or
\* the empty Text.
C23_UnknownAlias ==
  (calls = 1 /\ lines = <<FooUnknown>>)
  => /\ thrown = NoEx
     /\ <<"f", "o", "o">> \in DOMAIN m_data
     /\ m_data[<<"f", "o", "o">>] \in {NoneElement, StringElement(<<>>)}

\* C24: a parse whose first line is `k: &`, which hands the value `&` to
\* parseAnchor, raises whatever follows that line.
C24_EmptyAnchorName ==
  (calls = 1 /\ Len(lines) >= 1 /\ lines[1] = KeyAmp) => thrown # NoEx

\* the lines of the text the printer wrote
PrintedLines == getlines(ret.printed)

\* C25: in the printed text the first line is not indented, and a line that
\* is indented deeper than the line before it (the first entry of a nested
\* Mapping or Sequence, right under the key or '-' that holds it) is
\* exactly 2 spaces deeper.
C25_TwoSpacesPerLevel ==
  ret # NoDocument =>
    \A i \in DOMAIN PrintedLines :
      PrintedLines[i] # <<>> =>
        IF i = 1 THEN Indentation(PrintedLines[i]) = 0
        ELSE Indentation(PrintedLines[i]) > Indentation(PrintedLines[i - 1])
               => Indentation(PrintedLines[i]) = Indentation(PrintedLines[i - 1]) + 2

\* the history entries that record something other than a raising iteration
Completed == {n \in DOMAIN log : log[n].what # <<"raise">>}

\* C26: in every parse call the cursor never decreases (no history entry
\* ends before it starts, and the entries end at non-decreasing positions in
\* the order they were completed), every iteration of the loops of parseMap
\* and parseSeq after which the loop goes on has advanced the cursor, and
\* the call ends by raising or by returning the document that the root
\* block parse built from line 0.
C26_CursorAdvances ==
  calls = 1 =>
    /\ \A n \in DOMAIN log :
         /\ log[n].start <= log[n].stop
         /\ (log[n].fn = "iteration" /\ log[n].what = <<"continue">>)
              => log[n].start < log[n].stop
    /\ \A n \in Completed : \A m \in Completed : m < n => log[m].stop <= log[n].stop
    /\ thrown = NoEx =>
         /\ RootCall.fn = (IF m_sequenceRoot THEN "parseSeq" ELSE "parseMap")
         /\ RootCall.start = 0
         /\ RootCall.val = (IF m_sequenceRoot THEN SeqElement(m_sequenceData)
                                              ELSE MapElement(m_data))

\* a parse of three lines that returned after a nested block parse and at
\* least three loop iterations
C26_Witness ==
  /\ calls = 1 /\ thrown = NoEx /\ Len(lines) = 3
  /\ Cardinality(BlockCalls) >= 2
  /\ Cardinality({n \in DOMAIN log : log[n].fn = "iteration"}) >= 3

\* the lines after line i that are indented deeper than line i, up to the
\* first line that is not
Continuation(i) ==
  {j \in (i + 1)..(Len(lines) - 1) :
     \A m \in (i + 1)..j : Indentation(LineAt(m)) > Indentation(LineAt(i))}

\* C27: the Mapping made of an item line `- k: v` that is followed by a
\* deeper line holds k with the scalar inferred from v and every entry of
\* the continuation block; and when a line of the continuation block, at
\* the indentation of its first line, repeats k, the parse raises a
\* SyntaxException that names k.
C27_ItemMapping ==
  calls = 1 =>
    /\ \A e \in ItemMaps :
         HasKey(LineAt(e.start)) =>
           /\ KeyOf(LineAt(e.start)) \in DOMAIN e.val.map
           /\ e.val.map[KeyOf(LineAt(e.start))] = parseScalar(ValueOf(LineAt(e.start))).val
           /\ \A b \in MapCalls :
                b.start = e.start + 1 =>
                  \A key \in DOMAIN b.val.map \ {KeyOf(LineAt(e.start))} :
                    key \in DOMAIN e.val.map /\ e.val.map[key] = b.val.map[key]
    /\ ( /\ Continuation(0) # {}
         /\ \E j \in Continuation(0) :
              /\ Indentation(LineAt(j)) = Indentation(LineAt(1))
              /\ HasKey(LineAt(j)) /\ ~IsDashLine(LineAt(j))
              /\ KeyOf(LineAt(j)) = KeyOf(LineAt(0)) )
       => thrown.kind = "SyntaxException" /\ thrown.what = KeyOf(LineAt(0))

\* the block parses that returned to a caller inside the parse: all but the
\* root block
NestedReturns == {n \in DOMAIN log : log[n].fn \in {"parseMap", "parseSeq"} /\ n # Len(log)}

\* C28: in a parse that succeeds, the line on which a nested block parse
\* stopped is the line the next loop iteration of a caller examines, and
\* when that line is a `key: value` line it contributes to the document.
C28_NoLineSteppedOver ==
  (calls = 1 /\ thrown = NoEx) =>
    \A n \in NestedReturns :
      log[n].stop < Len(lines) =>
        /\ \E m \in (n + 1)..Len(log) :
             log[m].fn = "iteration" /\ log[m].start = log[n].stop
        /\ (HasKey(LineAt(log[n].stop)) /\ ~IsDashLine(LineAt(log[n].stop)))
             => log[n].stop \in RootCall.used

\* C29: a parse call that succeeds leaves isSequenceRoot() true exactly when
\* its root block was parsed by parseSeq, with the container of the other
\* root kind empty, and a parse call that raises leaves isSequenceRoot(),
\* root() and sequenceRoot() as they were; so after any sequence of calls
\* on a fresh parser isSequenceRoot() tells the root kind of the most
\* recent successful parse.
C29_RootKindKept ==
  [][calls' = calls + 1 =>
       IF thrown' = NoEx
         THEN /\ m_sequenceRoot' = (log'[Len(log')].fn = "parseSeq")
              /\ IF m_sequenceRoot' THEN m_data' = EmptyMap ELSE m_sequenceData' = <<>>
         ELSE /\ m_sequenceRoot' = m_sequenceRoot
              /\ m_data' = m_data
              /\ m_sequenceData' = m_sequenceData]_vars

\* line i is the last line, or the line after it is blank or not indented
\* deeper than line i
NoContentAfter(i) ==
  \/ i + 1 >= Len(lines)
  \/ IsBlank(LineAt(i + 1))
  \/ Indentation(LineAt(i + 1)) <= Indentation(LineAt(i))

\* the element that parseSeq call e made of its line i
ItemOf(e, i) == e.val.seq[Cardinality({j \in e.own : j <= i})]

\* C30: in a successfully parsed document no value has the NONE variant,
\* and a mapping entry without value, a sequence item without value and an
\* anchor definition, each with no deeper content after its line, have the
\* empty Text as value.
C30_NoAbsence ==
  (calls = 1 /\ thrown = NoEx) =>
    /\ \A v \in ElementsOf(IF m_sequenceRoot THEN SeqElement(m_sequenceData)
                                               ELSE MapElement(m_data)) :
         v.type \in {"STRING", "INT", "DOUBLE", "BOOL", "SEQ", "MAP"}
    /\ \A e \in MapCalls : \A i \in e.own :
         ( /\ HasKey(LineAt(i)) /\ ~IsDashLine(LineAt(i))
           /\ ValueOf(LineAt(i)) = <<>> /\ NoContentAfter(i) )
         => e.val.map[KeyOf(LineAt(i))] = StringElement(<<>>)
    /\ \A e \in BlockCalls : \A i \in e.own :
         (e.fn = "parseSeq" /\ trim(LineAt(i)) = DashOnly /\ NoContentAfter(i))
         => ItemOf(e, i) = StringElement(<<>>)
    /\ \A a \in AnchorDefs :
         NoContentAfter(a.start) => a.val = StringElement(<<>>)

====
